---- MODULE Spec2Model ----
(***************************************************************************)
(* Model of the segment lifecycle / upload pipeline of drabindr/manor:     *)
(*   - the recorder (casa-cameras-local-writer.py): the encoder            *)
(*     supervisor run_ffmpeg_recorder, the finalizer                        *)
(*     rename_completed_segments and the retention sweeper                  *)
(*     cleanup_old_files;                                                   *)
(*   - the HLS streamer (hls.py): start_uploading / stop_uploading, the     *)
(*     dispatcher loop upload_to_s3 and the workers upload_file_to_s3.      *)
(* Each program part has its own specification (SupSpec, HlsSpec, FinSpec,  *)
(* SweepSpec); a specification leaves the variables of the other parts     *)
(* unchanged.                                                               *)
(***************************************************************************)
EXTENDS Integers, Sequences, FiniteSets, TLC

VARIABLES
    \* ---- recorder supervisor (run_ffmpeg_recorder) ----
    stop_event,        \* threading.Event shared by the recorder's loops
    sup_pc,            \* position of the supervisor thread
    current_retries,   \* the consecutive-failure counter
    ffmpeg_process,    \* the Popen handle: a pid, or None
    alive,             \* pids of encoder processes that are running
    pipe,              \* output lines of the current encoder not yet read
    waitSecs,          \* timeout of the stop_event.wait the thread is in
    waitCause,         \* which path entered the most recent wait
    launchCount,       \* history: successful Popen calls so far
    crashStreak,       \* history: consecutive launches that ended in a crash
    diskCheck,         \* history: what this loop iteration's capacity check found
    sinceLaunch,       \* history: longest full wait since Popen was last called
    \* ---- HLS streamer (hls.py) ----
    s3_client,             \* TRUE when setup_clients built the client, else None
    is_uploading,          \* global flag read by the dispatcher loop
    hls_ffmpeg_process,    \* hls.py's ffmpeg_process: the session it encodes, or None
    current_run_id,        \* run id of the latest start command, or None
    s3_prefix,             \* remote prefix stream_path/run_id/, named by its run id
    start_time,            \* set while a stream duration is being measured
    current_output_dir,    \* the TemporaryDirectory of the session, or None
    upload_in_progress,    \* filename -> TRUE while an upload is marked in flight
    localDirs,             \* temp directories that exist on disk
    localFiles,            \* directory -> filename -> version on disk (0: absent)
    remote,                \* objects put to the sink: [prefix, file, ver]
    cmd_pc,                \* position of the command handler
    cmd_after,             \* what follows the stop steps: "none", "start", "exit"
    disp,                  \* dispatcher threads (upload_to_s3), one per start
    tasks,                 \* upload tasks submitted and not yet finished
    sessionCount,          \* history: start commands handled
    nextVer,               \* history: versions written by the encoders
    ws_connected,          \* TRUE while the WebSocket command connection is open
    lastMetric,            \* history: the UploadDuration emission of the worker
                           \* that finished last: "none", "sent", "failed"
    pings,                 \* history: ping messages handled
    \* ---- recorder clock, files and finalizer ----
    now,               \* the epoch clock, in seconds
    dstAt,             \* instant at which the zone's offset changes, or NoDst
    dstShift,          \* the change of the offset at dstAt, in seconds
    dirs,              \* the output root and the date and hour directories under it
    files,             \* files in the hour directories: [min, temp, ext, mtime]
    encFile,           \* name (local minute) of the file ffmpeg has open
    segments,          \* history: segment files opened so far
    fin,               \* the finalizer thread rename_completed_segments
    \* ---- retention sweeper ----
    sweep,             \* the sweeper thread cleanup_old_files
    sweepCount,        \* history: sweeps begun
    \* ---- mount resolution of the capacity check ----
    output_dir,            \* the --output-dir argument, a string of characters
    partitions,            \* psutil.disk_partitions(all=True): mount points
    output_mount_point,    \* the mount point chosen, or Unresolved
    \* ---- recorder metrics (emit_metric, system_metrics_emitter) ----
    cloudwatch_client,     \* TRUE when the recorder built its client, else None
    emitted,                \* history: how the latest emit_metric call ended
    met_pc,                \* position of the metrics emitter thread
    \* ---- histories of the claims about repeated operations ----
    scanLog,           \* history: finalizer scans begun, failed or acting
    \* ---- outdoor lighting controller ----
    light_now,             \* datetime.now(self.timezone), in seconds
    is_on,                 \* device.is_on of the followed device
    device_grace_periods,  \* the device's entry: its start, or NoGrace
    lit,                   \* the loop monitor_and_control_lights
    seenOn,                \* history: when the light was first found on
    switches,              \* history: times the light was switched on by hand
    \* ---- security sensor program (casa-main.py) ----
    system_mode,           \* "Disarm", "Arm Stay" or "Arm Away"
    last_arm_was_auto,
    manual_override,
    manual_override_until, \* a clock value, or None
    siren,                 \* TRUE when PIN_SIREN is driven high
    casa_now,              \* the clock, in quarters of an hour
    zone,                  \* the door zone: its pin and prev_states entry
    main_pc,               \* position of the main loop
    msg,                   \* the on_message handler of the WebSocket thread
    modeSetBy,             \* history: who assigned system_mode last
    \* ---- the streamer's workers between their steps ----
    s3_key,                \* the key prefix each worker has computed
    stopLog,               \* history: the latest stop_uploading calls
    \* ---- the recorder's hour directory before the first open ----
    prep                   \* the directory made, and the first open

supVars == <<stop_event, sup_pc, current_retries, ffmpeg_process, alive, pipe,
             waitSecs, waitCause, launchCount, crashStreak, diskCheck,
             sinceLaunch>>

hlsVars == <<s3_client, is_uploading, hls_ffmpeg_process, current_run_id,
             s3_prefix, start_time, current_output_dir, upload_in_progress,
             localDirs, localFiles, remote, cmd_pc, cmd_after, disp, tasks,
             sessionCount, nextVer, ws_connected, lastMetric, pings>>

recVars == <<now, dstAt, dstShift, dirs, files, encFile, segments, fin>>

sweepVars == <<sweep, sweepCount>>

mntVars == <<output_dir, partitions, output_mount_point>>

metVars == <<cloudwatch_client, emitted, met_pc>>

\* the variables only the later specifications change
lightVars == <<light_now, is_on, device_grace_periods, lit, seenOn,
               switches>>

casaVars == <<system_mode, last_arm_was_auto, manual_override,
              manual_override_until, siren, casa_now, zone, main_pc, msg,
              modeSetBy>>

\* the variables of the finer-grained specifications
stepVars == <<s3_key, stopLog, prep>>

extVars == <<scanLog, lightVars, casaVars, stepVars>>

vars == <<supVars, hlsVars, recVars, sweepVars, mntVars, metVars, extVars>>

\* the variables a part's specification leaves alone
\* (the recorder's loops each say what they do to `emitted`)
metRest == <<cloudwatch_client, met_pc>>
supRest == <<hlsVars, recVars, sweepVars, mntVars, metRest, extVars>>
hlsRest == <<supVars, recVars, sweepVars, mntVars, metVars, extVars>>
finRest == <<supVars, hlsVars, sweepVars, mntVars, metRest, extVars>>
sweepRest == <<supVars, hlsVars, mntVars, metRest, extVars>>
mntRest == <<supVars, hlsVars, recVars, sweepVars, metVars, extVars>>

None == 0

(***************************************************************************)
(* Program constants of casa-cameras-local-writer.py                        *)
(***************************************************************************)
FFMPEG_RETRY_DELAY_SECONDS == 15
FFMPEG_MAX_RETRIES == 5
FFMPEG_LONG_RETRY_PAUSE_SECONDS == 300
DEFAULT_DISK_LIMIT_PERCENT == 90
DISK_PAUSE_SECONDS == 60
FFMPEG_MISSING_PAUSE_SECONDS == 300

(***************************************************************************)
(* Bounds of the supervisor model                                           *)
(***************************************************************************)
MaxLaunches == 7      \* successful encoder launches explored
MaxPipe == 1          \* unread output lines buffered in the pipe

\* disk usage percentages the capacity check may observe
UsageValues == {DEFAULT_DISK_LIMIT_PERCENT - 1, DEFAULT_DISK_LIMIT_PERCENT,
                DEFAULT_DISK_LIMIT_PERCENT + 1}

(***************************************************************************)
(* RECORDER SUPERVISOR: run_ffmpeg_recorder                                 *)
(* sup_pc: "loop"      at `while not stop_event.is_set()` (line 250)        *)
(*         "disk"      the capacity check (252-282)                         *)
(*         "mkdir"     os.makedirs of the hour directory (288-297)          *)
(*         "launch"    subprocess.Popen (342-352)                           *)
(*         "mon_check" at the inner `while not stop_event.is_set()` (355)   *)
(*         "mon_read"  inside stdout.readline() (356)                       *)
(*         "ended"     after the inner loop (372)                           *)
(*         "term_wait" inside ffmpeg_process.wait(timeout=5) (377)          *)
(*         "wait"      inside stop_event.wait(waitSecs)                     *)
(*         "stopped"   the thread has left its loop (428)                   *)
(***************************************************************************)
\* an emit_metric that lets the sink's exception through
emit_metric_Raises(client, sink_up) ==
    IF ~client THEN "skipped"
    ELSE IF sink_up THEN "sent" ELSE "raised"

\* lines 148-170: emit_metric returns at once without a client; otherwise
\* it calls put_metric_data inside try / except Exception, which logs
emit_metric(client, sink_up) ==
    IF ~client THEN "skipped"
    ELSE IF sink_up THEN "sent" ELSE "failed"

\* the ways one emit_metric call can end, whatever the sink does
EmitOutcomes == {emit_metric(cloudwatch_client, up) : up \in BOOLEAN}

\* a caller that does not survive a push that failed
PcAfterEmit_EndsOnFailure(outcome, pc) ==
    IF outcome \in {"raised", "failed"} THEN "dead" ELSE pc

\* where a thread is after it called emit_metric on its way to pc: an
\* exception coming out of the call would be raised in an except clause or
\* be caught by one that emits again, and end the thread
PcAfterEmit(outcome, pc) == IF outcome = "raised" THEN "dead" ELSE pc

\* lines 120-145: the client is built, or left None when the setup fails
MetInit ==
    /\ cloudwatch_client \in BOOLEAN
    /\ emitted = "none"
    /\ met_pc = "loop"

MetIdle == MetInit /\ cloudwatch_client = TRUE

\* Popen has not been called yet
NoLaunchYet == -1

\* no capacity check has run in the current loop iteration
NoDiskCheck == [found |-> "none", percent |-> 0]

SupInit ==
    /\ diskCheck = NoDiskCheck
    /\ sinceLaunch = NoLaunchYet
    /\ stop_event = FALSE
    /\ sup_pc = "loop"
    /\ current_retries = 0
    /\ ffmpeg_process = None
    /\ alive = {}
    /\ pipe = 0
    /\ waitSecs = 0
    /\ waitCause = "none"
    /\ launchCount = 0
    /\ crashStreak = 0

\* emit_metric, then stop_event.wait(secs): every path of the supervisor
\* into a wait reports a metric first (lines 269, 274, 280, 295, 393-394,
\* 409, 413); the thread sleeps until the timeout or the event
SupEnterWait(secs, cause) ==
    /\ \E o \in EmitOutcomes :
          emitted' = o /\ sup_pc' = PcAfterEmit(o, "wait")
    /\ waitSecs' = secs
    /\ waitCause' = cause

\* line 250: while not stop_event.is_set()
SupLoop ==
    /\ sup_pc = "loop"
    /\ sup_pc' = IF stop_event THEN "stopped" ELSE "disk"
    /\ diskCheck' = NoDiskCheck
    /\ UNCHANGED <<emitted, sinceLaunch, stop_event, current_retries, ffmpeg_process, alive, pipe,
                   waitSecs, waitCause, launchCount, crashStreak>>

\* a guard that never finds the disk full
OverDiskLimit_Never(percent, disk_limit) == FALSE

\* line 267: disk_info.percent > disk_limit
OverDiskLimit(percent, disk_limit) == percent > disk_limit

\* a guard that pauses on a full disk only
PausesLaunch_OnlyWhenFull(found, percent, disk_limit) ==
    found = "usage" /\ OverDiskLimit(percent, disk_limit)

\* lines 265-282: the branches of the capacity check that end in
\* stop_event.wait(60); continue: the mount point is missing (272-276), the
\* check raised (278-282), or the usage read is over the limit (267-271)
PausesLaunch(found, percent, disk_limit) ==
    found # "usage" \/ OverDiskLimit(percent, disk_limit)

\* lines 253-282: the capacity check of the output mount
SupDiskCheck ==
    /\ sup_pc = "disk"
    /\ \E raises \in BOOLEAN, exists \in BOOLEAN, percent \in UsageValues :
         LET found == IF raises THEN "error"
                      ELSE IF ~exists THEN "missing" ELSE "usage"
             seen == IF found = "usage" THEN percent ELSE 0
         IN  /\ diskCheck' = [found |-> found, percent |-> seen]
             /\ IF PausesLaunch(found, seen, DEFAULT_DISK_LIMIT_PERCENT)
                THEN SupEnterWait(DISK_PAUSE_SECONDS,
                                  CASE found = "error" -> "disk_error"
                                    [] found = "missing" -> "disk_missing"
                                    [] OTHER -> "disk_full")
                ELSE /\ sup_pc' = "mkdir"
                     /\ UNCHANGED <<waitSecs, waitCause, emitted>>
    /\ UNCHANGED <<sinceLaunch, stop_event, current_retries, ffmpeg_process, alive, pipe,
                   launchCount, crashStreak>>

\* lines 288-297: os.makedirs(current_hour_dir, exist_ok=True)
SupMkdir ==
    /\ sup_pc = "mkdir"
    /\ \E ok \in BOOLEAN :
         IF ok
         THEN /\ sup_pc' = "launch"
              /\ UNCHANGED <<waitSecs, waitCause, emitted>>
         ELSE SupEnterWait(FFMPEG_RETRY_DELAY_SECONDS, "mkdir")
    /\ UNCHANGED <<sinceLaunch, diskCheck, stop_event, current_retries, ffmpeg_process, alive, pipe,
                   launchCount, crashStreak>>

\* line 352: current_retries = 0  # Reset retries on successful start
RetriesAfterLaunch(retries) == 0

\* lines 342-352: Popen succeeds; the handle is stored, FFmpegStatus is
\* emitted and the counter reset
SupLaunchOk ==
    /\ sup_pc = "launch"
    /\ launchCount < MaxLaunches
    /\ launchCount' = launchCount + 1
    /\ ffmpeg_process' = launchCount + 1
    /\ alive' = alive \cup {launchCount + 1}
    /\ pipe' = 0
    /\ current_retries' = RetriesAfterLaunch(current_retries)
    /\ \E o \in EmitOutcomes :
          emitted' = o /\ sup_pc' = PcAfterEmit(o, "mon_check")
    /\ sinceLaunch' = 0
    /\ UNCHANGED <<diskCheck, stop_event, waitSecs, waitCause, crashStreak>>

\* lines 407-410: Popen raises FileNotFoundError (no ffmpeg binary)
SupLaunchNotFound ==
    /\ sup_pc = "launch"
    /\ SupEnterWait(FFMPEG_MISSING_PAUSE_SECONDS, "notfound")
    /\ sinceLaunch' = 0
    /\ UNCHANGED <<diskCheck, stop_event, current_retries, ffmpeg_process, alive, pipe,
                   launchCount, crashStreak>>

\* a handler that forgets the encoder it launched
AliveAfterExceptionHandler_NoKill(handle, running) == running

\* lines 414-424: the handler terminates the encoder, waits 5 s, and kills it
\* when the wait raises; the processes still running afterwards
AliveAfterExceptionHandler(handle, running) == running \ {handle}

\* lines 411-426: `except Exception`, reached from Popen (no handle yet) or
\* from the monitoring loop (readline raises, e.g. a decode error)
SupException(cause) ==
    /\ alive' = AliveAfterExceptionHandler(ffmpeg_process, alive)
    /\ ffmpeg_process' = None
    /\ crashStreak' = 0
    /\ SupEnterWait(FFMPEG_RETRY_DELAY_SECONDS, cause)
    /\ UNCHANGED <<diskCheck, stop_event, current_retries, pipe, launchCount>>

SupLaunchError ==
    /\ sup_pc = "launch"
    /\ SupException("exc_launch")
    /\ sinceLaunch' = 0

\* line 355: the inner while not stop_event.is_set()
SupMonCheck ==
    /\ sup_pc = "mon_check"
    /\ sup_pc' = IF stop_event THEN "ended" ELSE "mon_read"
    /\ UNCHANGED <<emitted, sinceLaunch, diskCheck, stop_event, current_retries, ffmpeg_process, alive, pipe,
                   waitSecs, waitCause, launchCount, crashStreak>>

\* lines 356, 360-369: readline returns a line, which is logged
SupReadLine ==
    /\ sup_pc = "mon_read"
    /\ pipe > 0
    /\ pipe' = pipe - 1
    /\ sup_pc' = "mon_check"
    /\ UNCHANGED <<emitted, sinceLaunch, diskCheck, stop_event, current_retries, ffmpeg_process, alive,
                   waitSecs, waitCause, launchCount, crashStreak>>

\* line 356: readline raises on the bytes it received (universal_newlines)
SupReadRaises ==
    /\ sup_pc = "mon_read"
    /\ pipe > 0
    /\ SupException(IF ffmpeg_process \in alive THEN "exc_kill" ELSE "exc_dead")
    /\ UNCHANGED sinceLaunch

\* lines 357-359: readline returns '' at end of file and poll() is not None
SupReadEof ==
    /\ sup_pc = "mon_read"
    /\ pipe = 0
    /\ ffmpeg_process \notin alive
    /\ sup_pc' = "ended"
    /\ UNCHANGED <<emitted, sinceLaunch, diskCheck, stop_event, current_retries, ffmpeg_process, alive, pipe,
                   waitSecs, waitCause, launchCount, crashStreak>>

\* lines 372-375, 384-388: stop_event is set after the inner loop
SupStopTerminate ==
    /\ sup_pc = "ended"
    /\ stop_event
    /\ IF ffmpeg_process \in alive
       THEN sup_pc' = "term_wait" /\ UNCHANGED emitted
       ELSE \E o \in EmitOutcomes :
                emitted' = o /\ sup_pc' = PcAfterEmit(o, "stopped")
    /\ UNCHANGED <<sinceLaunch, diskCheck, stop_event, current_retries, ffmpeg_process, alive, pipe,
                   waitSecs, waitCause, launchCount, crashStreak>>

\* lines 376-388: wait(timeout=5) returns, or times out and kill() follows
SupStopWait ==
    /\ sup_pc = "term_wait"
    /\ alive' = alive \ {ffmpeg_process}
    /\ \E o \in EmitOutcomes :
          emitted' = o /\ sup_pc' = PcAfterEmit(o, "stopped")
    /\ UNCHANGED <<sinceLaunch, diskCheck, stop_event, current_retries, ffmpeg_process, pipe,
                   waitSecs, waitCause, launchCount, crashStreak>>

\* a crash path that goes straight back to the loop head
RetryPause_None(retries) == 0

\* lines 399-405: the pause chosen after a crash, from the incremented counter
RetryPause(retries) ==
    IF retries > FFMPEG_MAX_RETRIES
    THEN FFMPEG_LONG_RETRY_PAUSE_SECONDS
    ELSE FFMPEG_RETRY_DELAY_SECONDS

\* lines 390-405: the encoder exited and stop_event is not set: a crash
SupCrash ==
    /\ sup_pc = "ended"
    /\ ~stop_event
    /\ ffmpeg_process' = None
    /\ current_retries' = current_retries + 1
    /\ crashStreak' = crashStreak + 1
    /\ SupEnterWait(RetryPause(current_retries + 1),
                    IF current_retries + 1 > FFMPEG_MAX_RETRIES
                    THEN "crash_long" ELSE "crash")
    /\ UNCHANGED <<sinceLaunch, diskCheck, stop_event, alive, pipe, launchCount>>

\* the longest wait that ran to its timeout since the encoder was last
\* launched: stop_event.wait(secs) returns before secs have passed only when
\* the event is set
WaitedSinceLaunch(since, secs, stopping) ==
    IF since = NoLaunchYet \/ stopping \/ secs <= since THEN since ELSE secs

\* the wait returns (timeout or event); line 402 resets after the long pause
SupWaitDone ==
    /\ sup_pc = "wait"
    /\ sup_pc' = "loop"
    /\ waitSecs' = 0
    /\ current_retries' = IF waitCause = "crash_long" THEN 0 ELSE current_retries
    /\ crashStreak' = IF waitCause = "crash_long" THEN 0 ELSE crashStreak
    /\ sinceLaunch' = WaitedSinceLaunch(sinceLaunch, waitSecs, stop_event)
    /\ UNCHANGED <<emitted, diskCheck, stop_event, ffmpeg_process, alive, pipe, waitCause,
                   launchCount>>

\* the supervisor thread's steps
SupervisorStep ==
    \/ SupLoop /\ UNCHANGED supRest
    \/ SupDiskCheck /\ UNCHANGED supRest
    \/ SupMkdir /\ UNCHANGED supRest
    \/ SupLaunchOk /\ UNCHANGED supRest
    \/ SupLaunchNotFound /\ UNCHANGED supRest
    \/ SupLaunchError /\ UNCHANGED supRest
    \/ SupMonCheck /\ UNCHANGED supRest
    \/ SupReadLine /\ UNCHANGED supRest
    \/ SupReadRaises /\ UNCHANGED supRest
    \/ SupReadEof /\ UNCHANGED supRest
    \/ SupStopTerminate /\ UNCHANGED supRest
    \/ SupStopWait /\ UNCHANGED supRest
    \/ SupCrash /\ UNCHANGED supRest
    \/ SupWaitDone /\ UNCHANGED supRest

\* the encoder (external process): writes a diagnostic line to its pipe
EncoderEmitsLine ==
    /\ ffmpeg_process \in alive
    /\ pipe < MaxPipe
    /\ pipe' = pipe + 1
    /\ UNCHANGED <<emitted, sinceLaunch, diskCheck, stop_event, sup_pc, current_retries, ffmpeg_process, alive,
                   waitSecs, waitCause, launchCount, crashStreak>>

\* the encoder exits on its own (stream lost, error)
EncoderExits ==
    /\ ffmpeg_process \in alive
    /\ alive' = alive \ {ffmpeg_process}
    /\ UNCHANGED <<emitted, sinceLaunch, diskCheck, stop_event, sup_pc, current_retries, ffmpeg_process, pipe,
                   waitSecs, waitCause, launchCount, crashStreak>>

\* lines 569-572: signal_handler sets stop_event
SignalShutdown ==
    /\ ~stop_event
    /\ stop_event' = TRUE
    /\ UNCHANGED <<emitted, sinceLaunch, diskCheck, sup_pc, current_retries, ffmpeg_process, alive, pipe,
                   waitSecs, waitCause, launchCount, crashStreak>>

SupNext ==
    \/ SupLoop /\ UNCHANGED supRest
    \/ SupDiskCheck /\ UNCHANGED supRest
    \/ SupMkdir /\ UNCHANGED supRest
    \/ SupLaunchOk /\ UNCHANGED supRest
    \/ SupLaunchNotFound /\ UNCHANGED supRest
    \/ SupLaunchError /\ UNCHANGED supRest
    \/ SupMonCheck /\ UNCHANGED supRest
    \/ SupReadLine /\ UNCHANGED supRest
    \/ SupReadRaises /\ UNCHANGED supRest
    \/ SupReadEof /\ UNCHANGED supRest
    \/ SupStopTerminate /\ UNCHANGED supRest
    \/ SupStopWait /\ UNCHANGED supRest
    \/ SupCrash /\ UNCHANGED supRest
    \/ SupWaitDone /\ UNCHANGED supRest
    \/ EncoderEmitsLine /\ UNCHANGED supRest
    \/ EncoderExits /\ UNCHANGED supRest
    \/ SignalShutdown /\ UNCHANGED supRest

(***************************************************************************)
(* HLS STREAMER: hls.py                                                     *)
(* One command handler (the WebSocket thread's on_message, and the signal   *)
(* handler) runs start_uploading / stop_uploading; every start spawns a     *)
(* dispatcher thread upload_to_s3 with its own ThreadPoolExecutor, whose    *)
(* workers run upload_file_to_s3.  A file's fingerprint (st_mtime, st_size) *)
(* is modelled by a version number: every write of the encoder gives the    *)
(* file a version no file had before.                                       *)
(***************************************************************************)
MaxSessions == 2      \* start commands explored
MaxWrites == 2        \* file writes by the encoders explored
MaxPings == 2         \* ping messages explored
MaxTasks == 2         \* upload tasks outstanding at once

\* run_ffmpeg, lines 190, 206: the playlist and the segments ffmpeg writes
M3u8Files == {"stream.m3u8"}
TsFiles == {"segment_000.ts"}
Files == M3u8Files \cup TsFiles

Sessions == 1..MaxSessions

NoFilesOnDisk == [f \in Files |-> 0]

\* a dispatcher thread that does not run: never started, or returned
\* (cycle: history, the files submitted in the latest poll cycle, in order)
NoDispatcher == [pc |-> "none", existing_files |-> NoFilesOnDisk,
                 todo |-> <<>>, dir |-> None, ver |-> 0, cycle |-> <<>>]

HlsInit ==
    /\ s3_client \in BOOLEAN
    /\ is_uploading = FALSE
    /\ hls_ffmpeg_process = None
    /\ current_run_id = None
    /\ s3_prefix = None
    /\ start_time = FALSE
    /\ current_output_dir = None
    /\ upload_in_progress = [f \in Files |-> FALSE]
    /\ localDirs = {}
    /\ localFiles = [d \in Sessions |-> NoFilesOnDisk]
    /\ remote = {}
    /\ cmd_pc = "idle"
    /\ cmd_after = "none"
    /\ disp = [d \in Sessions |-> NoDispatcher]
    /\ tasks = {}
    /\ sessionCount = 0
    /\ nextVer = 1
    /\ ws_connected = FALSE
    /\ lastMetric = "none"
    /\ pings = 0

\* the streamer at rest, in the specifications of the other programs
HlsIdle == HlsInit /\ s3_client = TRUE

\* ---------------- the command handler ----------------

\* lines 407-414: stop_uploading clears the flag of an active session and
\* forgets its start time
FlagAfterStop(uploading) == FALSE

\* lines 454-456, 385-386, 407-414: a start_live_stream message; an active
\* session is stopped first
CmdStart ==
    /\ cmd_pc = "idle"
    /\ ws_connected
    /\ sessionCount < MaxSessions
    /\ IF is_uploading
       THEN /\ is_uploading' = FlagAfterStop(is_uploading)
            /\ start_time' = FALSE
            /\ cmd_pc' = "stop_teardown"
            /\ cmd_after' = "start"
       ELSE /\ cmd_pc' = "start_session"
            /\ UNCHANGED <<is_uploading, start_time, cmd_after>>
    /\ UNCHANGED <<pings, ws_connected, lastMetric, s3_client, hls_ffmpeg_process, current_run_id, s3_prefix,
                   current_output_dir, upload_in_progress, localDirs,
                   localFiles, remote, disp, tasks, sessionCount, nextVer>>

\* lines 457-459, 407-414: a stop_live_stream or client_disconnected message
CmdStop ==
    /\ cmd_pc = "idle"
    /\ ws_connected
    /\ is_uploading' = FlagAfterStop(is_uploading)
    /\ start_time' = IF is_uploading THEN FALSE ELSE start_time
    /\ cmd_pc' = "stop_teardown"
    /\ cmd_after' = "none"
    /\ UNCHANGED <<pings, ws_connected, lastMetric, s3_client, hls_ffmpeg_process, current_run_id, s3_prefix,
                   current_output_dir, upload_in_progress, localDirs,
                   localFiles, remote, disp, tasks, sessionCount, nextVer>>

\* lines 500-504: SIGTERM / SIGINT: stop_uploading, then sys.exit(0)
CmdShutdown ==
    /\ cmd_pc = "idle"
    /\ is_uploading' = FlagAfterStop(is_uploading)
    /\ start_time' = IF is_uploading THEN FALSE ELSE start_time
    /\ cmd_pc' = "stop_teardown"
    /\ cmd_after' = "exit"
    /\ UNCHANGED <<pings, ws_connected, lastMetric, s3_client, hls_ffmpeg_process, current_run_id, s3_prefix,
                   current_output_dir, upload_in_progress, localDirs,
                   localFiles, remote, disp, tasks, sessionCount, nextVer>>

\* a stop that leaves the session's files on disk
FilesAfterCleanup_Keeps(dir, onDisk) == onDisk

\* lines 420-425: TemporaryDirectory.cleanup() removes the directory and
\* every file in it; the files on disk afterwards
FilesAfterCleanup(dir, onDisk) ==
    IF dir = None THEN onDisk ELSE [onDisk EXCEPT ![dir] = NoFilesOnDisk]

\* lines 416-425 (stop_ffmpeg, 238-246): terminate the encoder and wait for
\* it, then clean up the temp directory
StopTeardown ==
    /\ cmd_pc = "stop_teardown"
    /\ hls_ffmpeg_process' = None
    /\ localFiles' = FilesAfterCleanup(current_output_dir, localFiles)
    /\ localDirs' = localDirs \ {current_output_dir}
    /\ current_output_dir' = None
    /\ cmd_pc' = CASE cmd_after = "start" -> "start_session"
                   [] cmd_after = "exit" -> "exited"
                   [] OTHER -> "idle"
    /\ cmd_after' = "none"
    /\ UNCHANGED <<pings, ws_connected, lastMetric, s3_client, is_uploading, current_run_id, s3_prefix,
                   start_time, upload_in_progress, remote, disp, tasks,
                   sessionCount, nextVer>>

\* lines 388-397: the new session's run id, prefix, temp directory, encoder
StartSession ==
    /\ cmd_pc = "start_session"
    /\ sessionCount' = sessionCount + 1
    /\ current_run_id' = sessionCount + 1
    /\ s3_prefix' = sessionCount + 1
    /\ start_time' = TRUE
    /\ current_output_dir' = sessionCount + 1
    /\ localDirs' = localDirs \cup {sessionCount + 1}
    /\ hls_ffmpeg_process' = sessionCount + 1
    /\ cmd_pc' = "start_thread"
    /\ UNCHANGED <<pings, ws_connected, lastMetric, s3_client, is_uploading, upload_in_progress, localFiles,
                   remote, cmd_after, disp, tasks, nextVer>>

\* lines 400-401: is_uploading = True and the dispatcher thread is started
StartThread ==
    /\ cmd_pc = "start_thread"
    /\ is_uploading' = TRUE
    /\ disp' = [disp EXCEPT ![sessionCount] =
                    [NoDispatcher EXCEPT !.pc = "poll"]]
    /\ cmd_pc' = "idle"
    /\ UNCHANGED <<pings, ws_connected, lastMetric, s3_client, hls_ffmpeg_process, current_run_id, s3_prefix,
                   start_time, current_output_dir, upload_in_progress,
                   localDirs, localFiles, remote, cmd_after, tasks,
                   sessionCount, nextVer>>

\* ---------------- the WebSocket connection ----------------

\* a handler that takes a ping for a stop
SessionAfterPing_Stops(session) == [session EXCEPT ![1] = FALSE]

\* lines 460-461: `elif action == "ping"` logs "Doing nothing." and assigns
\* nothing; session is <<is_uploading, ffmpeg_process, current_run_id,
\* s3_prefix, current_output_dir>>
SessionAfterPing(session) == session

\* lines 440-465: on_message handles a ping message
CmdPing ==
    /\ cmd_pc = "idle"
    /\ ws_connected
    /\ pings < MaxPings
    /\ pings' = pings + 1
    /\ LET after == SessionAfterPing(<<is_uploading, hls_ffmpeg_process,
                                       current_run_id, s3_prefix,
                                       current_output_dir>>)
       IN  /\ is_uploading' = after[1]
           /\ hls_ffmpeg_process' = after[2]
           /\ current_run_id' = after[3]
           /\ s3_prefix' = after[4]
           /\ current_output_dir' = after[5]
    /\ UNCHANGED <<ws_connected, lastMetric, s3_client, start_time,
                   upload_in_progress, localDirs, localFiles, remote, cmd_pc,
                   cmd_after, disp, tasks, sessionCount, nextVer>>

\* lines 473-474, 476-489: run_forever connects (again, 5 s after a loss)
\* and on_open logs
WsOpen ==
    /\ cmd_pc = "idle"
    /\ ~ws_connected
    /\ ws_connected' = TRUE
    /\ UNCHANGED <<pings, lastMetric, s3_client, is_uploading, hls_ffmpeg_process,
                   current_run_id, s3_prefix, start_time, current_output_dir,
                   upload_in_progress, localDirs, localFiles, remote, cmd_pc,
                   cmd_after, disp, tasks, sessionCount, nextVer>>

\* the session flag after the handlers of a lost connection have run:
\* on_error (467-468) and on_close (470-472) write log lines only
FlagAfterConnectionLost(uploading) == uploading

\* lines 467-472, 491-495: the connection closes or fails; on_error and
\* on_close run, run_forever returns and the worker sleeps before reconnecting
WsLost ==
    /\ cmd_pc = "idle"
    /\ ws_connected
    /\ ws_connected' = FALSE
    /\ is_uploading' = FlagAfterConnectionLost(is_uploading)
    /\ UNCHANGED <<pings, lastMetric, s3_client, hls_ffmpeg_process,
                   current_run_id, s3_prefix, start_time, current_output_dir,
                   upload_in_progress, localDirs, localFiles, remote, cmd_pc,
                   cmd_after, disp, tasks, sessionCount, nextVer>>

\* ---------------- the encoder of the session ----------------

\* ffmpeg (lines 193-208) creates or rewrites a playlist or segment file in
\* its output directory: the file gets a new (mtime, size)
HlsEncoderWrites(f) ==
    /\ hls_ffmpeg_process # None
    /\ nextVer <= MaxWrites
    /\ localFiles' = [localFiles EXCEPT ![hls_ffmpeg_process][f] = nextVer]
    /\ nextVer' = nextVer + 1
    /\ UNCHANGED <<pings, ws_connected, lastMetric, s3_client, is_uploading, hls_ffmpeg_process, current_run_id,
                   s3_prefix, start_time, current_output_dir,
                   upload_in_progress, localDirs, remote, cmd_pc, cmd_after,
                   disp, tasks, sessionCount>>

\* ---------------- the dispatcher thread upload_to_s3 ----------------

\* a cycle that handles the .ts files before the .m3u8 files
ListedFiles_TsFirst(dir) ==
    (IF localFiles[dir]["segment_000.ts"] # 0
     THEN <<"segment_000.ts">> ELSE <<>>)
    \o (IF localFiles[dir]["stream.m3u8"] # 0 THEN <<"stream.m3u8">> ELSE <<>>)

\* lines 323-327 and 330, 351: sorted(os.listdir), the .m3u8 files first
ListedFiles(dir) ==
    (IF localFiles[dir]["stream.m3u8"] # 0 THEN <<"stream.m3u8">> ELSE <<>>)
    \o (IF localFiles[dir]["segment_000.ts"] # 0
        THEN <<"segment_000.ts">> ELSE <<>>)

\* lines 317-327: while is_uploading (leaving the loop ends the thread);
\* without a directory: sleep and loop; else list it
DispPoll(d) ==
    /\ disp[d].pc = "poll"
    /\ cmd_pc # "exited"
    /\ disp' = [disp EXCEPT ![d] =
           IF ~is_uploading
           THEN [NoDispatcher EXCEPT !.pc = "done"]
           ELSE IF current_output_dir = None
                   \/ current_output_dir \notin localDirs
           THEN @
           ELSE IF ListedFiles(current_output_dir) = <<>>
           THEN @
           ELSE [@ EXCEPT !.pc = "file", !.cycle = <<>>,
                          !.todo = ListedFiles(current_output_dir)]]
    /\ UNCHANGED <<pings, ws_connected, lastMetric, s3_client, is_uploading, hls_ffmpeg_process, current_run_id,
                   s3_prefix, start_time, current_output_dir,
                   upload_in_progress, localDirs, localFiles, remote, cmd_pc,
                   cmd_after, tasks, sessionCount, nextVer>>

\* the dispatcher record after the file at the head of todo is dealt with;
\* after the last file: time.sleep(0.1) and the loop test again
DispAdvance(r) ==
    IF Len(r.todo) <= 1
    THEN [r EXCEPT !.pc = "poll", !.todo = <<>>, !.dir = None, !.ver = 0]
    ELSE [r EXCEPT !.pc = "file", !.todo = Tail(r.todo), !.dir = None,
                   !.ver = 0]

\* lines 339-343: new or changed since the last submission, and not marked
\* in flight
MustSubmit(existing, f, v, inflight) ==
    /\ existing[f] # v
    /\ ~inflight[f]

\* lines 331-343 (352-363): the path under the current directory, isfile,
\* stat, and the two tests.  current_output_dir.name raises when the
\* handler has set it to None: the loop's except clause (371) catches it.
DispFile(d) ==
    /\ disp[d].pc = "file"
    /\ cmd_pc # "exited"
    /\ LET r == disp[d]
           f == Head(r.todo)
           dir == current_output_dir
       IN  disp' = [disp EXCEPT ![d] =
                IF dir = None
                THEN [r EXCEPT !.pc = "poll", !.todo = <<>>]
                ELSE IF localFiles[dir][f] = 0
                THEN DispAdvance(r)
                ELSE IF MustSubmit(r.existing_files, f, localFiles[dir][f],
                                   upload_in_progress)
                THEN [r EXCEPT !.pc = "submit", !.dir = dir,
                               !.ver = localFiles[dir][f]]
                ELSE DispAdvance(r)]
    /\ UNCHANGED <<pings, ws_connected, lastMetric, s3_client, is_uploading, hls_ffmpeg_process, current_run_id,
                   s3_prefix, start_time, current_output_dir,
                   upload_in_progress, localDirs, localFiles, remote, cmd_pc,
                   cmd_after, tasks, sessionCount, nextVer>>

\* line 345: the fingerprint the dispatcher records when it submits
RecordedOnSubmit(existing, f, v) == [existing EXCEPT ![f] = v]

\* lines 344-346: mark in flight, record the fingerprint, submit the task
DispSubmit(d) ==
    /\ disp[d].pc = "submit"
    /\ cmd_pc # "exited"
    /\ Cardinality(tasks) < MaxTasks
    /\ LET r == disp[d]
           f == Head(r.todo)
       IN  /\ upload_in_progress' = [upload_in_progress EXCEPT ![f] = TRUE]
           /\ tasks' = tasks \cup {[file |-> f, dir |-> r.dir, by |-> d,
                                    pc |-> "queued"]}
           /\ disp' = [disp EXCEPT ![d] =
                  DispAdvance([r EXCEPT !.cycle = Append(@, f),
                      !.existing_files =
                          RecordedOnSubmit(r.existing_files, f, r.ver)])]
    /\ UNCHANGED <<pings, ws_connected, lastMetric, s3_client, is_uploading, hls_ffmpeg_process, current_run_id,
                   s3_prefix, start_time, current_output_dir, localDirs,
                   localFiles, remote, cmd_pc, cmd_after, sessionCount,
                   nextVer>>

\* ---------------- the upload workers upload_file_to_s3 ----------------
\* The pool's workers are joined when the interpreter exits, so the tasks
\* already submitted still run after sys.exit; the dispatcher is a daemon
\* thread and is not waited for.

\* lines 300-302: the finally clause clears the in-flight mark
ClearedInFlight(inflight, f) == [inflight EXCEPT ![f] = FALSE]

\* lines 258-264: return at once without the client or without the file;
\* these returns come before the try and skip its finally clause
TaskSkips(t) ==
    /\ t \in tasks
    /\ t.pc = "queued"
    /\ ~s3_client \/ localFiles[t.dir][t.file] = 0
    /\ tasks' = tasks \ {t}
    /\ UNCHANGED <<pings, ws_connected, lastMetric, s3_client, is_uploading, hls_ffmpeg_process, current_run_id,
                   s3_prefix, start_time, current_output_dir,
                   upload_in_progress, localDirs, localFiles, remote, cmd_pc,
                   cmd_after, disp, sessionCount, nextVer>>

\* the worker after s3_client.upload_file returned (ok) or raised: on to
\* os.remove, or out through the except and finally clauses
TasksAfterPush(t, ok) ==
    IF ok THEN (tasks \ {t}) \cup {[t EXCEPT !.pc = "pushed"]}
    ELSE tasks \ {t}

\* lines 268-288: upload_file puts the file's current bytes under the key
\* s3_prefix + filename and returns
TaskPushOk(t) ==
    /\ t \in tasks
    /\ t.pc = "queued"
    /\ s3_client
    /\ localFiles[t.dir][t.file] # 0
    /\ remote' = remote \cup {[prefix |-> s3_prefix, file |-> t.file,
                               ver |-> localFiles[t.dir][t.file]]}
    /\ tasks' = TasksAfterPush(t, TRUE)
    /\ UNCHANGED <<pings, ws_connected, lastMetric, s3_client, is_uploading, hls_ffmpeg_process, current_run_id,
                   s3_prefix, start_time, current_output_dir,
                   upload_in_progress, localDirs, localFiles, cmd_pc,
                   cmd_after, disp, sessionCount, nextVer>>

\* lines 294-302: upload_file raises (the sink refuses the put): a failure
\* metric, then the finally clause
TaskPushFails(t) ==
    /\ t \in tasks
    /\ t.pc = "queued"
    /\ s3_client
    /\ localFiles[t.dir][t.file] # 0
    /\ tasks' = TasksAfterPush(t, FALSE)
    /\ upload_in_progress' = ClearedInFlight(upload_in_progress, t.file)
    /\ UNCHANGED <<pings, ws_connected, lastMetric, s3_client, is_uploading, hls_ffmpeg_process, current_run_id,
                   s3_prefix, start_time, current_output_dir, localDirs,
                   localFiles, remote, cmd_pc, cmd_after, disp, sessionCount,
                   nextVer>>

\* emit_metric (135-158) returns when there is no client, when the put
\* succeeded and when it failed: it catches the client's errors (156-157)
MetricOutcomes == {"sent", "failed"}

\* a worker that keeps the file when the metric emission failed
FileAfterWorker_KeptOnMetricFailure(ver, metric) ==
    IF metric = "failed" THEN ver ELSE 0

\* lines 287-291: whatever emit_metric("UploadDuration") met, os.remove
\* follows: the version of the file on disk afterwards (0: absent)
FileAfterWorker(ver, metric) == 0

\* lines 287-292, 297-302: emit_metric, then os.remove(file_path) (it raises
\* when the file is gone, which the except clause absorbs), then the finally
\* clause
TaskRemove(t) ==
    /\ t \in tasks
    /\ t.pc = "pushed"
    /\ \E metric \in MetricOutcomes :
         /\ lastMetric' = metric
         /\ localFiles' = [localFiles EXCEPT ![t.dir][t.file] =
                               FileAfterWorker(@, metric)]
    /\ upload_in_progress' = ClearedInFlight(upload_in_progress, t.file)
    /\ tasks' = tasks \ {t}
    /\ UNCHANGED <<pings, ws_connected, s3_client, is_uploading, hls_ffmpeg_process,
                   current_run_id, s3_prefix, start_time, current_output_dir,
                   localDirs, remote, cmd_pc, cmd_after, disp, sessionCount,
                   nextVer>>

HlsNext ==
    \/ CmdStart /\ UNCHANGED hlsRest
    \/ CmdStop /\ UNCHANGED hlsRest
    \/ CmdShutdown /\ UNCHANGED hlsRest
    \/ StopTeardown /\ UNCHANGED hlsRest
    \/ StartSession /\ UNCHANGED hlsRest
    \/ StartThread /\ UNCHANGED hlsRest
    \/ \E f \in Files : HlsEncoderWrites(f) /\ UNCHANGED hlsRest
    \/ \E d \in Sessions : DispPoll(d) /\ UNCHANGED hlsRest
    \/ \E d \in Sessions : DispFile(d) /\ UNCHANGED hlsRest
    \/ \E d \in Sessions : DispSubmit(d) /\ UNCHANGED hlsRest
    \/ \E t \in tasks : TaskSkips(t) /\ UNCHANGED hlsRest
    \/ \E t \in tasks : TaskPushOk(t) /\ UNCHANGED hlsRest
    \/ \E t \in tasks : TaskPushFails(t) /\ UNCHANGED hlsRest
    \/ \E t \in tasks : TaskRemove(t) /\ UNCHANGED hlsRest
    \/ WsOpen /\ UNCHANGED hlsRest
    \/ WsLost /\ UNCHANGED hlsRest

(***************************************************************************)
(* RECORDER FILES, CLOCK AND FINALIZER: casa-cameras-local-writer.py        *)
(* Time is in seconds.  time.time() and os.path.getmtime read the epoch     *)
(* clock `now`; ffmpeg's -strftime pattern                                  *)
(* and datetime.now()/fromtimestamp read local time, whose offset from the  *)
(* epoch clock changes by an hour at a daylight-saving transition of the    *)
(* system's zone (the repository's other programs run in America/Toronto).  *)
(* A segment file is named by its path .../%Y/%m/%d/%H/%M, i.e. by the      *)
(* local minute in which ffmpeg opened it.                                   *)
(***************************************************************************)
SEGMENT_DURATION_SECONDS == 60
RENAME_CHECK_INTERVAL_SECONDS == 30
RTSP_TIMEOUT_MICROSECONDS == 5000000

\* line 311: ffmpeg gives up on an input that delivers nothing for this long
RtspTimeoutSeconds == RTSP_TIMEOUT_MICROSECONDS \div 1000000

\* line 441
min_age_before_rename == SEGMENT_DURATION_SECONDS + 10

MaxElapsed == 100     \* seconds of recorder time explored
MaxSegments == 2      \* segment files the encoders open
MaxScanSeconds == 1   \* seconds one finalizer scan may take

NoDst == -1
NoFile == -1

HourSeconds == 60 * 60

\* line 597: the instant at which the recorder's threads start
StartInstant == 2 * HourSeconds

\* the instants at which the zone's offset may change, and by how much
DstInstants == {StartInstant}
DstShifts == {-HourSeconds, HourSeconds}

\* localtime(t): the zone's offset is the one in force at instant t
Local(t) == IF dstAt # NoDst /\ t >= dstAt THEN t + dstShift ELSE t

\* strftime("%Y/%m/%d/%H/%M") of an instant: the local minute
LocalMinute(t) == Local(t) \div 60

\* the %Y/%m/%d/%H directory of a file, and the %Y/%m/%d directory above it
HourDir(m) == [lvl |-> "hour", id |-> m \div 60]
DayDir(m) == [lvl |-> "day", id |-> m \div (60 * 24)]

\* the instants the model observes: seconds 0, 1, 20, 21 and 25 of every
\* half minute; the distance from instant t to the next one
ClockStep(t) ==
    CASE t % 30 = 0 -> 1
      [] t % 30 = 1 -> 19
      [] t % 30 = 20 -> 1
      [] t % 30 = 21 -> 4
      [] OTHER -> 30 - (t % 30)

\* the output root itself
RootDir == [lvl |-> "root", id |-> 0]

\* a file is MM_temp.mp4 (temp, ext "mp4"), MM.mp4 (ext "mp4") or, with
\* another ext, a file that is not a recording
TempFile(m, t) == [min |-> m, temp |-> TRUE, ext |-> "mp4", mtime |-> t]
TempFiles(fs) == {f \in fs : f.temp}
TempNamed(fs, m) == {f \in fs : f.temp /\ f.min = m}
FinalNamed(fs, m) == {f \in fs : ~f.temp /\ f.ext = "mp4" /\ f.min = m}

ClockInit ==
    /\ now = StartInstant
    /\ \/ dstAt = NoDst /\ dstShift = 0
       \/ dstAt \in DstInstants /\ dstShift \in DstShifts

\* the clock at rest, in the specifications that do not read it
ClockIdle == now = StartInstant /\ dstAt = NoDst /\ dstShift = 0

\* a finalized segment an earlier run of the recorder left on disk: opened
\* an hour before this start, closed a segment duration later
EarlierSegment ==
    [min |-> LocalMinute(StartInstant - HourSeconds), temp |-> FALSE,
     ext |-> "mp4", mtime |-> StartInstant - HourSeconds + SEGMENT_DURATION_SECONDS]

\* lines 597-605: the threads start; the output directory is empty or holds
\* earlier recordings
FinStart(earlier) ==
    /\ files = earlier
    /\ dirs = {RootDir} \cup {HourDir(f.min) : f \in earlier}
                        \cup {DayDir(f.min) : f \in earlier}
    /\ encFile = NoFile
    /\ segments = 0
    /\ fin = [pc |-> "wait", sleep |-> 0, now_ts |-> 0, todo |-> {},
              cur |-> NoFile, act |-> "none", did |-> "none"]

FinInit == \E earlier \in {{}, {EarlierSegment}} : FinStart(earlier)

\* ---------------- the encoder and the clock ----------------

\* lines 288-292, 303, 342: the supervisor makes the current hour's
\* directory and launches ffmpeg, which opens (creates or truncates) the
\* segment file named by the local minute
RecStart ==
    /\ encFile = NoFile
    /\ segments < MaxSegments
    /\ LET m == LocalMinute(now)
       IN  /\ dirs' = dirs \cup {HourDir(m), DayDir(m)}
           /\ files' = (files \ TempNamed(files, m)) \cup {TempFile(m, now)}
           /\ encFile' = m
    /\ segments' = segments + 1
    /\ UNCHANGED <<emitted, now, dstAt, dstShift, fin>>

\* ffmpeg exits (input lost, error, terminate): the file stays as written
RecExit ==
    /\ encFile # NoFile
    /\ encFile' = NoFile
    /\ UNCHANGED <<emitted, now, dstAt, dstShift, dirs, files, segments, fin>>

\* the files after the encoder wrote to its open file at instant t; a file
\* the finalizer has removed is written to no more
Written(fs, m, t) ==
    (fs \ TempNamed(fs, m)) \cup {TempFile(f.min, t) : f \in TempNamed(fs, m)}

\* the encoder may be silent over a step only within the input timeout
StallAllowed(fs, m, t) ==
    \A f \in TempNamed(fs, m) : t - f.mtime <= RtspTimeoutSeconds

\* lines 325-329: at a change of the local minute the segment muxer closes
\* its file and opens the one named by the new minute; ffmpeg makes no
\* directories, so without the hour's directory the open fails and it exits
Rolled(t) ==
    LET m == LocalMinute(t)
        closed == Written(files, encFile, t)
    IN  IF HourDir(m) \in dirs
        THEN /\ files' = (closed \ TempNamed(closed, m)) \cup {TempFile(m, t)}
             /\ encFile' = m
             /\ segments' = segments + 1
        ELSE /\ files' = closed
             /\ encFile' = NoFile
             /\ segments' = segments

\* time passes to the next observed instant.  A running encoder writes its
\* open file meanwhile (or stalls, within the timeout) and rolls at the
\* minute; the finalizer wakes when its wait is over and finishes a scan
\* within MaxScanSeconds.
Tick ==
    LET t == now + ClockStep(now)
    IN  /\ t <= StartInstant + MaxElapsed
        /\ IF fin.pc = "wait"
           THEN /\ ClockStep(now) <= fin.sleep
                /\ fin' = [fin EXCEPT !.sleep = @ - ClockStep(now)]
           ELSE /\ t - fin.now_ts <= MaxScanSeconds
                /\ fin' = fin
        /\ now' = t
        /\ IF encFile = NoFile
           THEN UNCHANGED <<files, encFile, segments>>
           ELSE IF LocalMinute(t) # LocalMinute(now)
           THEN /\ segments < MaxSegments
                /\ Rolled(t)
           ELSE /\ \/ files' = Written(files, encFile, t)
                   \/ /\ StallAllowed(files, encFile, t)
                      /\ files' = files
                /\ UNCHANGED <<encFile, segments>>
        /\ UNCHANGED <<emitted, dstAt, dstShift, dirs>>

\* ---------------- the finalizer rename_completed_segments ----------------

\* the finalizer after the current file: on to the next, or into
\* stop_event.wait(RENAME_CHECK_INTERVAL_SECONDS) (line 500)
FinNextFile(r, m) ==
    IF r.todo \ {m} = {}
    THEN [r EXCEPT !.pc = "wait", !.sleep = RENAME_CHECK_INTERVAL_SECONDS,
                   !.todo = {}]
    ELSE [r EXCEPT !.pc = "file", !.todo = @ \ {m}]

\* lines 443-453 and 500: the wait is over (its timeout, or stop_event);
\* the loop ends when stop_event is set; else now_ts = time.time(), and
\* os.walk lists the *_temp.mp4 files
FinScanStart ==
    /\ fin.pc = "wait"
    /\ fin.sleep = 0 \/ stop_event
    /\ LET todo == {f.min : f \in TempFiles(files)}
           r == [fin EXCEPT !.now_ts = now, !.todo = todo, !.cur = NoFile,
                            !.act = "none", !.did = "none"]
       IN  fin' = IF stop_event THEN [fin EXCEPT !.pc = "stopped"]
                  ELSE IF todo = {} THEN FinNextFile(r, NoFile)
                  ELSE [r EXCEPT !.pc = "file"]
    /\ UNCHANGED <<emitted, now, dstAt, dstShift, dirs, files, encFile, segments>>

\* line 500: stop_event.wait(RENAME_CHECK_INTERVAL_SECONDS) times out, for
\* the specifications that let no clock run
FinWaitDone ==
    /\ fin.pc = "wait"
    /\ fin.sleep > 0
    /\ fin' = [fin EXCEPT !.sleep = 0]
    /\ UNCHANGED <<emitted, now, dstAt, dstShift, dirs, files, encFile, segments>>

\* something outside the recorder removes a temp file that ffmpeg does not
\* have open
TempVanishes(m) ==
    /\ m # encFile
    /\ TempNamed(files, m) # {}
    /\ files' = files \ TempNamed(files, m)
    /\ UNCHANGED <<emitted, now, dstAt, dstShift, dirs, encFile, segments, fin>>

\* a finalizer that reports every exception as a rename error
EmitsRenameError_Always(exc) == TRUE

\* lines 483-491: of the except clauses around one file's processing, the
\* one for FileNotFoundError logs a warning and continues; those for OSError
\* and Exception call emit_metric("RenameError", 1)
EmitsRenameError(exc) == exc # "FileNotFoundError"

\* lines 483-491: one file's processing raised an exception of class exc
FinExcept(exc) ==
    IF EmitsRenameError(exc) THEN emitted' \in EmitOutcomes
    ELSE UNCHANGED emitted

\* lines 495-496: an exception that leaves one file's except clause ends
\* the scan: the files not yet processed are left for the next scan
FinAfterEmit(r) == IF emitted' = "raised" THEN [r EXCEPT !.todo = {}] ELSE r

\* a threshold with half the grace
TooRecent_HalfGrace(file_age, min_age) ==
    file_age < SEGMENT_DURATION_SECONDS + 5

\* line 472
TooRecent_NoGrace(file_age, min_age) == file_age < SEGMENT_DURATION_SECONDS

TooRecent(file_age, min_age) == file_age < min_age

\* a finalizer that does not look for the final file
FinalExists_Unchecked(fs, m) == FALSE

\* line 461: os.path.exists(final_file_path)
FinalExists(fs, m) == FinalNamed(fs, m) # {}

\* lines 455-474: for one listed temp file, in any order of the listing:
\* does the final path exist; else the file's age against the threshold
\* (os.path.getmtime raises FileNotFoundError when the file is gone).
\* Both are reads; only the finalizer creates final files, so they are
\* taken in one step.
FinDecide(m) ==
    /\ fin.pc = "file"
    /\ m \in fin.todo
    /\ IF ~FinalExists(files, m) /\ TempNamed(files, m) = {}
       THEN FinExcept("FileNotFoundError")
       ELSE UNCHANGED emitted
    /\ LET r == [fin EXCEPT !.cur = m, !.did = "none"]
       IN  fin' =
             IF FinalExists(files, m)
             THEN [r EXCEPT !.pc = "act", !.act = "remove"]
             ELSE IF TempNamed(files, m) = {}
             THEN FinNextFile(FinAfterEmit([r EXCEPT !.did = "vanished"]), m)
             ELSE IF \E f \in TempNamed(files, m) :
                        TooRecent(fin.now_ts - f.mtime, min_age_before_rename)
             THEN FinNextFile([r EXCEPT !.did = "young"], m)
             ELSE [r EXCEPT !.pc = "act", !.act = "rename"]
    /\ UNCHANGED <<now, dstAt, dstShift, dirs, files, encFile, segments>>

\* a finalizer that copies a temp file to its final name and leaves the
\* temp file in place
Renamed_KeepsTemp(fs, m) ==
    (fs \ FinalNamed(fs, m))
        \cup {[f EXCEPT !.temp = FALSE] : f \in TempNamed(fs, m)}

\* line 478: os.rename keeps the file's mtime and replaces the target
Renamed(fs, m) ==
    (fs \ (TempNamed(fs, m) \cup FinalNamed(fs, m)))
        \cup {[f EXCEPT !.temp = FALSE] : f \in TempNamed(fs, m)}

\* lines 464 and 478-485: os.remove of the redundant temp file, or
\* os.rename to the final name followed by emit_metric("SegmentsRenamed");
\* a file that is gone by now is passed over
FinAct ==
    /\ fin.pc = "act"
    /\ LET m == fin.cur
           gone == TempNamed(files, m) = {}
           did == IF gone THEN "vanished"
                  ELSE IF fin.act = "remove" THEN "removed" ELSE "renamed"
       IN  /\ files' = IF gone THEN files
                       ELSE IF fin.act = "remove"
                       THEN files \ TempNamed(files, m)
                       ELSE Renamed(files, m)
           /\ IF did = "renamed" THEN emitted' \in EmitOutcomes
              ELSE IF did = "vanished" /\ fin.act = "rename"
              THEN FinExcept("FileNotFoundError")
              ELSE UNCHANGED emitted
           /\ fin' = FinNextFile(
                       FinAfterEmit([fin EXCEPT !.act = "none", !.did = did]),
                       m)
    /\ UNCHANGED <<now, dstAt, dstShift, dirs, encFile, segments>>

\* lines 464-467 and 478, 486-488: os.remove or os.rename raises an OSError
\* other than FileNotFoundError (no permission, read-only or failing disk);
\* the failed removal is logged, the failed rename reported; on to the next
FinActFails ==
    /\ fin.pc = "act"
    /\ TempNamed(files, fin.cur) # {}
    /\ IF fin.act = "rename" THEN FinExcept("OSError") ELSE UNCHANGED emitted
    /\ fin' = FinNextFile(
                FinAfterEmit([fin EXCEPT !.act = "none", !.did = "failed"]),
                fin.cur)
    /\ UNCHANGED <<now, dstAt, dstShift, dirs, files, encFile, segments>>

FinNext ==
    \/ RecStart /\ UNCHANGED finRest
    \/ RecExit /\ UNCHANGED finRest
    \/ Tick /\ UNCHANGED finRest
    \/ FinScanStart /\ UNCHANGED finRest
    \/ \E m \in fin.todo : FinDecide(m) /\ UNCHANGED finRest
    \/ FinAct /\ UNCHANGED finRest

(***************************************************************************)
(* RETENTION SWEEPER: cleanup_old_files                                     *)
(* The sweeper works on the same directories and files as the finalizer.    *)
(* It compares naive local datetimes: datetime.now() - timedelta(days) with *)
(* datetime.fromtimestamp(mtime).                                           *)
(***************************************************************************)
DEFAULT_RETENTION_DAYS == 7
CLEANUP_INTERVAL_SECONDS == 3600

MaxSweeps == 2        \* sweeps explored

DaySeconds == 24 * HourSeconds

\* timedelta(days=retention_days), in seconds
RetentionSeconds(retention_days) == retention_days * DaySeconds

\* the instant of the first sweep, with recordings of more than a retention
\* window on disk
SweepInstant == 8 * DaySeconds

\* the zone's offset may have changed a day before the first sweep
SweepDstInstants == {SweepInstant - DaySeconds}

\* ages, at the first sweep, of the final files found on disk
OldAges == {RetentionSeconds(DEFAULT_RETENTION_DAYS) - 1,
            RetentionSeconds(DEFAULT_RETENTION_DAYS),
            RetentionSeconds(DEFAULT_RETENTION_DAYS) + 1}

\* the names of the old files: recorded one and two hours before the
\* retention window began
OldMinute(k) ==
    (SweepInstant - RetentionSeconds(DEFAULT_RETENTION_DAYS)
        - k * HourSeconds) \div 60

FinalFile(m, t) == [min |-> m, temp |-> FALSE, ext |-> "mp4", mtime |-> t]

\* a file of the same hour that is not a recording, such as a log
OtherFile(m, t) == [min |-> m, temp |-> FALSE, ext |-> "log", mtime |-> t]

\* the name of a file in its directory listing
Name(f) == [min |-> f.min, temp |-> f.temp, ext |-> f.ext]

ParentDir(d) ==
    IF d.lvl = "hour" THEN [lvl |-> "day", id |-> d.id \div 24] ELSE RootDir

\* line 542: os.listdir(root) is empty
DirEmpty(d, ds, fs) ==
    /\ \A f \in fs : HourDir(f.min) # d
    /\ \A c \in ds \ {RootDir} : ParentDir(c) # d

NoSweep == [pc |-> "ready", cutoff_time |-> 0, started |-> 0, walk |-> {},
            snap |-> {}, cur |-> RootDir, todo |-> {}]

SweepIdle == sweep = NoSweep /\ sweepCount = 0

SweepClockInit ==
    /\ now = SweepInstant
    /\ \/ dstAt = NoDst /\ dstShift = 0
       \/ dstAt \in SweepDstInstants /\ dstShift \in DstShifts

\* lines 597-605: the threads start; the disk holds the recordings given
SweepStartsWith(old) ==
    /\ files = old
    /\ dirs = {RootDir} \cup {HourDir(f.min) : f \in old}
                        \cup {DayDir(f.min) : f \in old}
    /\ encFile = NoFile
    /\ segments = 0
    /\ fin = [pc |-> "wait", sleep |-> 0, now_ts |-> 0, todo |-> {},
              cur |-> NoFile, act |-> "none", did |-> "none"]
    /\ SweepIdle

\* beside the recordings, an hour directory may hold a temp file that was
\* never finalized and a file that is not a recording, both out of date
SweepInit ==
    \E a, b \in {0} \cup OldAges, leftover, other \in BOOLEAN :
        SweepStartsWith(
            (IF a = 0 THEN {}
             ELSE {FinalFile(OldMinute(2), SweepInstant - a)})
            \cup (IF b = 0 THEN {}
                  ELSE {FinalFile(OldMinute(1), SweepInstant - b)})
            \cup (IF leftover
                  THEN {TempFile(OldMinute(1), SweepInstant - DaySeconds
                            - RetentionSeconds(DEFAULT_RETENTION_DAYS))}
                  ELSE {})
            \cup (IF other
                  THEN {OtherFile(OldMinute(1), SweepInstant - DaySeconds
                            - RetentionSeconds(DEFAULT_RETENTION_DAYS))}
                  ELSE {}))

\* line 511
cutoff_time_at(t, retention_days) == Local(t) - RetentionSeconds(retention_days)

\* a filter that lets every .mp4 through
IsCleanupTarget_AnyMp4(f) == f.ext = "mp4"

\* line 522: `if not file.endswith(".mp4") or file.endswith("_temp.mp4"):
\* continue`: only final .mp4 files are looked at
IsCleanupTarget(f) == f.ext = "mp4" /\ ~f.temp

\* lines 509-518: the loop ends when stop_event is set; else a sweep
\* begins: the cutoff, and os.walk(topdown=False) over the directories and
\* the files they hold
SweepBegin ==
    /\ sweep.pc = "ready"
    /\ IF stop_event
       THEN /\ sweep' = [sweep EXCEPT !.pc = "stopped"]
            /\ UNCHANGED sweepCount
       ELSE /\ sweepCount < MaxSweeps
            /\ sweepCount' = sweepCount + 1
            /\ sweep' = [sweep EXCEPT
                    !.pc = "pick",
                    !.cutoff_time = cutoff_time_at(now, DEFAULT_RETENTION_DAYS),
                    !.started = now,
                    !.walk = dirs \cup {RootDir},
                    !.snap = {Name(f) : f \in {g \in files : IsCleanupTarget(g)}}]
    /\ UNCHANGED <<emitted, now, dstAt, dstShift, dirs, files, encFile, segments, fin>>

\* a walk from the top down: a directory is yielded before the directories
\* below it
YieldedNext_TopDown(d, walk) ==
    d = RootDir \/ ParentDir(d) \notin walk

\* line 518: os.walk(topdown=False) yields a directory after all the
\* directories below it, the output root last
YieldedNext(d, walk) ==
    /\ \A c \in walk : c # RootDir => ParentDir(c) # d
    /\ d = RootDir => walk = {RootDir}

\* line 518: the walk yields its next directory and the files listed in it
SweepEnterDir(d) ==
    /\ sweep.pc = "pick"
    /\ d \in sweep.walk
    /\ YieldedNext(d, sweep.walk)
    /\ LET todo == {n \in sweep.snap : HourDir(n.min) = d}
       IN  sweep' = [sweep EXCEPT !.pc = IF todo = {} THEN "rmdir" ELSE "files",
                                  !.cur = d, !.todo = todo,
                                  !.walk = @ \ {d}]
    /\ UNCHANGED <<emitted, now, dstAt, dstShift, dirs, files, encFile, segments, fin,
                   sweepCount>>

\* lines 529-531: datetime.fromtimestamp(mtime) < cutoff_time
OlderThanCutoff(file_mod_time_ts, cutoff_time) ==
    Local(file_mod_time_ts) < cutoff_time

\* lines 520-538: one listed file: skip what is not a final .mp4, stat it,
\* remove it when older than the cutoff; a file that is gone is passed over
SweepFile(m) ==
    /\ sweep.pc = "files"
    /\ m \in sweep.todo
    /\ files' = files \ {f \in files :
                            /\ Name(f) = m
                            /\ OlderThanCutoff(f.mtime, sweep.cutoff_time)}
    /\ sweep' = [sweep EXCEPT !.todo = @ \ {m},
                              !.pc = IF sweep.todo = {m} THEN "rmdir"
                                     ELSE "files"]
    /\ UNCHANGED <<emitted, now, dstAt, dstShift, dirs, encFile, segments, fin,
                   sweepCount>>

\* lines 535-538: os.path.getmtime or os.remove raises; the except clauses
\* log it, the file stays, and the walk goes on
SweepFileFails(m) ==
    /\ sweep.pc = "files"
    /\ m \in sweep.todo
    /\ sweep' = [sweep EXCEPT !.todo = @ \ {m},
                              !.pc = IF sweep.todo = {m} THEN "rmdir"
                                     ELSE "files"]
    /\ UNCHANGED <<emitted, now, dstAt, dstShift, dirs, files, encFile,
                   segments, fin, sweepCount>>

\* lines 542-556: remove the directory when it is empty and is not the
\* output root; after the last directory the sweep is over and its counts
\* are emitted
SweepRmdir ==
    /\ sweep.pc = "rmdir"
    /\ dirs' = IF DirEmpty(sweep.cur, dirs, files) /\ sweep.cur # RootDir
               THEN dirs \ {sweep.cur} ELSE dirs
    /\ IF sweep.walk = {}
       THEN \E o \in EmitOutcomes :
                /\ emitted' = o
                /\ sweep' = [sweep EXCEPT !.pc = PcAfterEmit(o, "sleep")]
       ELSE sweep' = [sweep EXCEPT !.pc = "pick"] /\ UNCHANGED emitted
    /\ UNCHANGED <<now, dstAt, dstShift, files, encFile, segments, fin,
                   sweepCount>>

\* line 563: stop_event.wait(CLEANUP_INTERVAL_SECONDS) times out, or
\* returns at once when stop_event is set
SweepSleep ==
    /\ sweep.pc = "sleep"
    /\ now' = IF stop_event THEN now ELSE now + CLEANUP_INTERVAL_SECONDS
    /\ sweep' = [sweep EXCEPT !.pc = "ready"]
    /\ UNCHANGED <<emitted, dstAt, dstShift, dirs, files, encFile, segments, fin,
                   sweepCount>>

SweepNext ==
    \/ SweepBegin /\ UNCHANGED sweepRest
    \/ \E d \in sweep.walk : SweepEnterDir(d) /\ UNCHANGED sweepRest
    \/ \E m \in sweep.todo : SweepFile(m) /\ UNCHANGED sweepRest
    \/ SweepRmdir /\ UNCHANGED sweepRest
    \/ SweepSleep /\ UNCHANGED sweepRest

(***************************************************************************)
(* MOUNT RESOLUTION: the loop over psutil.disk_partitions at the head of    *)
(* the capacity check (run_ffmpeg_recorder 255-263, and the same code in    *)
(* system_metrics_emitter 202-210).  Paths are Python strings, modelled as  *)
(* sequences of characters, so that str.startswith and len are what they    *)
(* are in the code.                                                         *)
(***************************************************************************)
MaxPartitions == 3    \* mounted filesystems listed by disk_partitions

Sep == "/"            \* os.path.sep
Root == <<Sep>>
Unresolved == <<>>

\* output directories a user may pass: normalised absolute paths in which one
\* directory name is a proper string prefix of another ("/m", "/mx")
OutputDirs ==
    {<<Sep, "m">>, <<Sep, "m", "x">>,
     <<Sep, "m", Sep, "m">>, <<Sep, "m", Sep, "m", "x">>,
     <<Sep, "m", "x", Sep, "m">>, <<Sep, "m", "x", Sep, "m", "x">>}

\* mount points a system may have
MountPoints == {Root} \cup OutputDirs

\* the partition lists: every mount point at most once, in any order
PartitionLists ==
    {ps \in UNION {[1..n -> MountPoints] : n \in 0..MaxPartitions} :
        \A i, j \in DOMAIN ps : i # j => ps[i] # ps[j]}

\* str.startswith
StartsWith(str, prefix) ==
    /\ Len(prefix) <= Len(str)
    /\ SubSeq(str, 1, Len(prefix)) = prefix

\* lines 260 / 207: mount_point_with_sep
mount_point_with_sep(mountpoint) ==
    IF mountpoint = Root THEN mountpoint ELSE mountpoint \o <<Sep>>

\* lines 257-263: the loop, from partition i on, with the best match so far
\* (best_match_len is the length of the best match, 0 when there is none)
RECURSIVE ResolveFrom(_, _, _, _)
ResolveFrom(dir, parts, i, best) ==
    IF i > Len(parts) THEN best
    ELSE IF /\ StartsWith(dir, mount_point_with_sep(parts[i]))
            /\ Len(parts[i]) > Len(best)
         THEN ResolveFrom(dir, parts, i + 1, parts[i])
         ELSE ResolveFrom(dir, parts, i + 1, best)

\* lines 255-263: output_mount_point starts as '/' with best_match_len 0
ResolveMount(dir, parts) ==
    LET best == ResolveFrom(dir, parts, 1, Unresolved)
    IN  IF best = Unresolved THEN Root ELSE best

MountIdle ==
    /\ output_dir = Root
    /\ partitions = <<>>
    /\ output_mount_point = Unresolved

MountInit ==
    /\ output_dir \in OutputDirs
    /\ partitions \in PartitionLists
    /\ output_mount_point = Unresolved

\* the capacity check resolves the mount of the output directory
MountResolve ==
    /\ output_mount_point = Unresolved
    /\ output_mount_point' = ResolveMount(output_dir, partitions)
    /\ UNCHANGED <<output_dir, partitions>>

MountNext ==
    \/ MountResolve /\ UNCHANGED mntRest

(***************************************************************************)
(* REPEATED SCANS of the finalizer on an output tree nothing else touches   *)
(***************************************************************************)
MaxScans == 2         \* finalizer scans followed at one instant

NoScans == [begun |-> 0, failed |-> FALSE, acted |-> FALSE]

\* the files a scan may find for the two minutes before the last: a temp
\* file of exactly the rename age or a second younger, a final file
ScanCandidates ==
    UNION {{TempFile(m, StartInstant - min_age_before_rename),
            TempFile(m, StartInstant - min_age_before_rename + 1),
            FinalFile(m, StartInstant - min_age_before_rename)} :
           m \in {LocalMinute(StartInstant) - 3, LocalMinute(StartInstant) - 2}}

\* a directory holds one file of a name
ScanInit ==
    /\ scanLog = NoScans
    /\ \E fs \in SUBSET ScanCandidates :
           /\ \A f, g \in fs : Name(f) = Name(g) => f = g
           /\ FinStart(fs)

\* lines 443-447: a scan begins
ScanBegin ==
    /\ scanLog.begun < MaxScans
    /\ FinScanStart
    /\ scanLog' = [scanLog EXCEPT !.begun = @ + 1]

\* lines 464, 478: the scan removes or renames a file
ScanAct ==
    /\ FinAct
    /\ scanLog' = [scanLog EXCEPT !.acted = @ \/ files' # files]

\* lines 465, 486: a removal or a rename fails
ScanActFails ==
    /\ FinActFails
    /\ scanLog' = [scanLog EXCEPT !.failed = TRUE]

scanRest == <<supVars, hlsVars, sweepVars, mntVars, metRest, lightVars,
              casaVars, stepVars>>

ScanNext ==
    \/ ScanBegin /\ UNCHANGED scanRest
    \/ \E m \in fin.todo : FinDecide(m) /\ UNCHANGED <<scanRest, scanLog>>
    \/ ScanAct /\ UNCHANGED scanRest
    \/ ScanActFails /\ UNCHANGED scanRest
    \/ FinWaitDone /\ UNCHANGED <<scanRest, scanLog>>

(***************************************************************************)
(* OUTDOOR LIGHTING CONTROLLER (outdoor-lighting-controller.py)             *)
(* One outdoor device is followed through the iterations of                 *)
(* monitor_and_control_lights in the hour before and the minutes after      *)
(* midnight; someone may switch the light on by hand.  light_now is         *)
(* datetime.now(self.timezone) in seconds since the midnight that begins    *)
(* the evening's day.                                                       *)
(* lit.pc: "check"    before check_and_control_device (384)                 *)
(*         "cleanup"  before cleanup_expired_grace_periods (388)            *)
(*         "sleep"    inside asyncio.sleep(current_interval) (416)          *)
(***************************************************************************)
DEFAULT_CHECK_INTERVAL_SECONDS == 300

MaxLightElapsed == 2400   \* seconds of controller time explored
MaxSwitches == 1          \* times the light is switched on by hand
MaxLatency == 10          \* seconds the awaits of one iteration may take

NoGrace == -1
NeverSeen == NoGrace

LightDaySeconds == 24 * 3600

\* line 63: self.end_time = time(21, 0)
EndHour == 21

\* line 127: the sunset of the fallback, 19:00
SunsetHour == 19

\* line 82: self.after_hours_grace_period
after_hours_grace_period == 15 * 60

\* the instant at which the model begins to follow the loop: 23:30
LightStart == 23 * 3600 + 30 * 60

\* the time the loop's awaits on the devices may take between the check of
\* the followed device and the cleanup
Latencies == {0, MaxLatency \div 2, MaxLatency}

\* now.time() as seconds of the day, and now.hour
TimeOfDay(t) == t % LightDaySeconds
HourOf(t) == TimeOfDay(t) \div 3600

\* lines 130-153: sunset_time <= current_time <= self.end_time
should_lights_be_on(t) ==
    SunsetHour * 3600 <= TimeOfDay(t) /\ TimeOfDay(t) <= EndHour * 3600

\* lines 155-166: the first of today's sunset and 21:00 that is still to
\* come, else tomorrow's sunset
get_next_schedule_change(t) ==
    LET today == t - TimeOfDay(t)
    IN  IF today + SunsetHour * 3600 > t THEN today + SunsetHour * 3600
        ELSE IF today + EndHour * 3600 > t THEN today + EndHour * 3600
        ELSE today + LightDaySeconds + SunsetHour * 3600

\* lines 168-190
should_check_aggressively(t) ==
    \/ get_next_schedule_change(t) - t <= 600
    \/ ~should_lights_be_on(t) /\ HourOf(t) < SunsetHour

\* lines 192-201: elapsed < self.after_hours_grace_period
is_device_in_grace_period(grace, t) ==
    grace # NoGrace /\ t - grace < after_hours_grace_period

\* line 289: `if current_hour >= 21`
AfterHours(t) == HourOf(t) >= EndHour

\* lines 215-224: an entry older than the grace period is deleted
GraceAfterCleanup(grace, t) ==
    IF grace # NoGrace /\ t - grace > after_hours_grace_period
    THEN NoGrace ELSE grace

\* lines 389-405: the time to the next iteration
current_interval(check_interval, aggressive_check, grace, devices_changed,
                 t) ==
    IF aggressive_check
    THEN IF check_interval < 60 THEN check_interval ELSE 60
    ELSE IF grace # NoGrace
    THEN IF check_interval < 120 THEN check_interval ELSE 120
    ELSE IF ~devices_changed /\ check_interval > 60
            /\ get_next_schedule_change(t) - t > 3600
    THEN IF check_interval * 2 < 900 THEN check_interval * 2 ELSE 900
    ELSE check_interval

LightIdle ==
    /\ light_now = LightStart
    /\ is_on = FALSE
    /\ device_grace_periods = NoGrace
    /\ lit = [pc |-> "check", top |-> LightStart, aggressive |-> FALSE,
              changed |-> FALSE, waited |-> FALSE, sleep |-> 0]
    /\ seenOn = NeverSeen
    /\ switches = 0

\* lines 226-266: after startup_device_check, outside the lighting
\* window, the light is off
LightInit == LightIdle

\* someone switches the light on by hand
SwitchedOn ==
    /\ ~is_on
    /\ switches < MaxSwitches
    /\ is_on' = TRUE
    /\ switches' = switches + 1
    /\ seenOn' = NeverSeen
    /\ UNCHANGED <<light_now, device_grace_periods, lit>>

\* lines 345 and 359-362: the iteration reads the clock and works out
\* whether it checks aggressively
LightAtTop ==
    [lit EXCEPT !.top = light_now,
                !.aggressive = should_check_aggressively(light_now),
                !.waited = FALSE]

\* lines 268-327: check_and_control_device for the followed device
LightCheck ==
    /\ lit.pc = "check"
    /\ LET on == should_lights_be_on(light_now)
           turn_on == on /\ ~is_on
           graced == ~on /\ is_on /\ AfterHours(light_now)
           in_grace == is_device_in_grace_period(device_grace_periods,
                                                 light_now)
           turn_off == /\ ~on /\ is_on
                       /\ graced => (~in_grace
                                     /\ device_grace_periods # NoGrace)
       IN  /\ is_on' = IF turn_on THEN TRUE
                       ELSE IF turn_off THEN FALSE ELSE is_on
           /\ device_grace_periods' =
                 IF turn_on \/ turn_off \/ (on /\ is_on) THEN NoGrace
                 ELSE IF graced /\ device_grace_periods = NoGrace
                 THEN light_now
                 ELSE device_grace_periods
           /\ seenOn' = IF turn_off THEN NeverSeen
                        ELSE IF graced /\ seenOn = NeverSeen THEN light_now
                        ELSE seenOn
           /\ lit' = [LightAtTop EXCEPT !.pc = "cleanup",
                                        !.changed = turn_on \/ turn_off]
    /\ UNCHANGED <<light_now, switches>>

\* lines 278 and 329-331: device.update() raises; the exception is logged
\* and the device left as it is
LightCheckRaises ==
    /\ lit.pc = "check"
    /\ lit' = [LightAtTop EXCEPT !.pc = "cleanup", !.changed = FALSE]
    /\ UNCHANGED <<light_now, is_on, device_grace_periods, seenOn, switches>>

\* lines 383-386: the awaits on the loop's other devices take their time
LightAwaits ==
    /\ lit.pc = "cleanup"
    /\ ~lit.waited
    /\ \E d \in Latencies \ {0} : light_now' = light_now + d
    /\ lit' = [lit EXCEPT !.waited = TRUE]
    /\ UNCHANGED <<is_on, device_grace_periods, seenOn, switches>>

\* lines 388-416: cleanup_expired_grace_periods, then the interval
LightCleanup ==
    /\ lit.pc = "cleanup"
    /\ LET grace == GraceAfterCleanup(device_grace_periods, light_now)
       IN  /\ device_grace_periods' = grace
           /\ lit' = [lit EXCEPT
                  !.pc = "sleep",
                  !.sleep = current_interval(DEFAULT_CHECK_INTERVAL_SECONDS,
                                lit.aggressive, grace, lit.changed, lit.top)]
    /\ UNCHANGED <<light_now, is_on, seenOn, switches>>

\* line 416: asyncio.sleep(current_interval) returns
LightWake ==
    /\ lit.pc = "sleep"
    /\ light_now + lit.sleep <= LightStart + MaxLightElapsed
    /\ light_now' = light_now + lit.sleep
    /\ lit' = [lit EXCEPT !.pc = "check", !.sleep = 0]
    /\ UNCHANGED <<is_on, device_grace_periods, seenOn, switches>>

lightRest == <<supVars, hlsVars, recVars, sweepVars, mntVars, metVars,
               scanLog, casaVars, stepVars>>

LightNext ==
    \/ SwitchedOn /\ UNCHANGED lightRest
    \/ LightCheck /\ UNCHANGED lightRest
    \/ LightCheckRaises /\ UNCHANGED lightRest
    \/ LightAwaits /\ UNCHANGED lightRest
    \/ LightCleanup /\ UNCHANGED lightRest
    \/ LightWake /\ UNCHANGED lightRest

(***************************************************************************)
(* SECURITY SENSOR PROGRAM (casa-main.py)                                   *)
(* The main loop (329-348) polls one door zone and calls auto_arm_disarm;   *)
(* on_message (134-216) runs on the thread of the WebSocket connection.     *)
(* casa_now is the clock in quarters of an hour since midnight.             *)
(* main_pc: "auto"   before auto_arm_disarm (331)                           *)
(*          "poll"   before GPIO.input of the zone (333)                    *)
(*          "alarm"  inside trigger_alarm, before GPIO.output (93-94)       *)
(*          "sleep"  inside time.sleep(1) (348)                             *)
(* msg.pc:  "idle", or "ack" between the assignment of system_mode (163)    *)
(*          and wsapp.send of the acknowledgment (175)                      *)
(***************************************************************************)
MANUAL_OVERRIDE_TTL_MINUTES == 30

MaxCasaElapsed == 18      \* quarters of an hour explored, from 02:00
MaxZoneChanges == 2       \* times the zone's contact changes
MaxCommands == 2          \* mode commands received

Commands == {"Arm Stay", "Arm Away", "Disarm"}

CasaStart == 2 * 4

\* est_now.hour and est_now.minute
CasaHour(q) == (q \div 4) % 24
CasaMinute(q) == (q % 4) * 15

\* line 305: from 2:30 to before 5:30
InArmWindow(q) ==
    /\ CasaHour(q) > 2 \/ (CasaHour(q) = 2 /\ CasaMinute(q) >= 30)
    /\ CasaHour(q) < 5 \/ (CasaHour(q) = 5 /\ CasaMinute(q) < 30)

\* line 311
InDisarmWindow(q) == CasaHour(q) = 5 /\ CasaMinute(q) >= 30

\* lines 67-73 and 327: the program starts disarmed, the zone closed
CasaIdle ==
    /\ system_mode = "Disarm"
    /\ last_arm_was_auto = FALSE
    /\ manual_override = FALSE
    /\ manual_override_until = None
    /\ siren = FALSE
    /\ casa_now = CasaStart
    /\ zone = [pin |-> FALSE, prev_states |-> FALSE, changes |-> 0]
    /\ main_pc = "auto"
    /\ msg = [pc |-> "idle", received |-> 0]
    /\ modeSetBy = "start"

CasaInit == CasaIdle

\* lines 289-294: the override after its expiry
OverrideExpired(override, until, q) ==
    override /\ until # None /\ q > until

\* lines 285-315: auto_arm_disarm
CasaAuto ==
    /\ main_pc = "auto"
    /\ main_pc' = "poll"
    /\ LET expired == OverrideExpired(manual_override, manual_override_until,
                                      casa_now)
           override == manual_override /\ ~expired
           arms == ~override /\ InArmWindow(casa_now)
                       /\ system_mode = "Disarm"
           disarms == ~override /\ ~InArmWindow(casa_now)
                          /\ InDisarmWindow(casa_now)
                          /\ system_mode = "Arm Stay"
       IN  /\ manual_override' = override
           /\ manual_override_until' =
                 IF expired THEN None ELSE manual_override_until
           /\ system_mode' = IF arms THEN "Arm Stay"
                             ELSE IF disarms THEN "Disarm" ELSE system_mode
           /\ last_arm_was_auto' = (arms \/ disarms \/ last_arm_was_auto)
           /\ modeSetBy' = IF arms \/ disarms THEN "auto" ELSE modeSetBy
    /\ UNCHANGED <<siren, casa_now, zone, msg>>

\* lines 340-344: a changed zone raises the alarm when armed away and open,
\* or armed stay, open and not the motion zone
RaisesAlarm(mode, current_state) ==
    current_state /\ mode \in {"Arm Away", "Arm Stay"}

\* lines 333-346: the zone is read; a change is logged (log_event, 337) and
\* the mode read; trigger_alarm begins with log_event (93)
CasaPoll ==
    /\ main_pc = "poll"
    /\ IF zone.pin # zone.prev_states /\ RaisesAlarm(system_mode, zone.pin)
       THEN main_pc' = "alarm" /\ UNCHANGED zone
       ELSE /\ main_pc' = "sleep"
            /\ zone' = [zone EXCEPT !.prev_states = zone.pin]
    /\ UNCHANGED <<system_mode, last_arm_was_auto, manual_override,
                   manual_override_until, siren, casa_now, msg, modeSetBy>>

\* lines 94 and 346: GPIO.output(PIN_SIREN, GPIO.HIGH)
CasaAlarm ==
    /\ main_pc = "alarm"
    /\ siren' = TRUE
    /\ zone' = [zone EXCEPT !.prev_states = zone.pin]
    /\ main_pc' = "sleep"
    /\ UNCHANGED <<system_mode, last_arm_was_auto, manual_override,
                   manual_override_until, casa_now, msg, modeSetBy>>

\* line 348: time.sleep(1) returns
CasaSleep ==
    /\ main_pc = "sleep"
    /\ main_pc' = "auto"
    /\ UNCHANGED <<system_mode, last_arm_was_auto, manual_override,
                   manual_override_until, siren, casa_now, zone, msg,
                   modeSetBy>>

\* a quarter of an hour passes
CasaTick ==
    /\ casa_now < CasaStart + MaxCasaElapsed
    /\ casa_now' = casa_now + 1
    /\ UNCHANGED <<system_mode, last_arm_was_auto, manual_override,
                   manual_override_until, siren, zone, main_pc, msg,
                   modeSetBy>>

\* the contact of the zone opens or closes
ZoneChanges ==
    /\ zone.changes < MaxZoneChanges
    /\ zone' = [zone EXCEPT !.pin = ~@, !.changes = @ + 1]
    /\ UNCHANGED <<system_mode, last_arm_was_auto, manual_override,
                   manual_override_until, siren, casa_now, main_pc, msg,
                   modeSetBy>>

\* lines 155-163: a mode command arrives: system_mode = command
MsgCommand(command) ==
    /\ msg.pc = "idle"
    /\ msg.received < MaxCommands
    /\ system_mode' = command
    /\ modeSetBy' = "manual"
    /\ msg' = [pc |-> "ack", received |-> msg.received + 1]
    /\ UNCHANGED <<last_arm_was_auto, manual_override, manual_override_until,
                   siren, casa_now, zone, main_pc>>

\* lines 175 and 215-216: wsapp.send raises on a connection that has gone;
\* the handler's except clause logs it and the handler returns
MsgAckRaises ==
    /\ msg.pc = "ack"
    /\ msg' = [msg EXCEPT !.pc = "idle"]
    /\ UNCHANGED <<system_mode, last_arm_was_auto, manual_override,
                   manual_override_until, siren, casa_now, zone, main_pc,
                   modeSetBy>>

\* lines 185-190: Disarm after an automatic arming starts the override
OverrideUntil(q) == q + MANUAL_OVERRIDE_TTL_MINUTES \div 15

\* lines 175-199: the acknowledgment is sent; the override logic; stop_alarm
\* when the mode is Disarm
MsgFinish ==
    /\ msg.pc = "ack"
    /\ msg' = [msg EXCEPT !.pc = "idle"]
    /\ LET starts == system_mode = "Disarm" /\ last_arm_was_auto
       IN  /\ manual_override' = starts
           /\ manual_override_until' =
                 IF starts THEN OverrideUntil(casa_now) ELSE None
           /\ last_arm_was_auto' = FALSE
    /\ siren' = IF system_mode = "Disarm" THEN FALSE ELSE siren
    /\ UNCHANGED <<system_mode, casa_now, zone, main_pc, modeSetBy>>

casaRest == <<supVars, hlsVars, recVars, sweepVars, mntVars, metVars,
              scanLog, lightVars, stepVars>>

CasaNext ==
    \/ CasaAuto /\ UNCHANGED casaRest
    \/ CasaPoll /\ UNCHANGED casaRest
    \/ CasaAlarm /\ UNCHANGED casaRest
    \/ CasaSleep /\ UNCHANGED casaRest
    \/ CasaTick /\ UNCHANGED casaRest
    \/ ZoneChanges /\ UNCHANGED casaRest
    \/ \E c \in Commands : MsgCommand(c) /\ UNCHANGED casaRest
    \/ MsgAckRaises /\ UNCHANGED casaRest
    \/ MsgFinish /\ UNCHANGED casaRest

(***************************************************************************)
(* THE METRICS OF stop_uploading: hls.py 403-425                            *)
(* stopLog records, for the latest stop_uploading call of the handler or of *)
(* the signal handler since the last start command: how many such calls    *)
(* came in a row, whether the call found no session active, and the        *)
(* metrics it emitted.                                                     *)
(***************************************************************************)
MaxStopsInARow == 2

NoStops == [row |-> 0, idle |-> FALSE, emitted |-> {}]

\* a stop that reports the end of a stream whether or not one was active
StopEmits_Always(uploading, started) == {"StreamDuration", "ConnectionStatus"}

\* lines 407-414: the metrics stop_uploading emits: both only for an active
\* session, StreamDuration only when the start time is set
StopEmits(uploading, started) ==
    IF uploading
    THEN (IF started THEN {"StreamDuration"} ELSE {}) \cup {"ConnectionStatus"}
    ELSE {}

\* the record of one more stop_uploading call
StopLogged(log, uploading, started) ==
    [row |-> IF log.row < MaxStopsInARow THEN log.row + 1 ELSE log.row,
     idle |-> ~uploading,
     emitted |-> StopEmits(uploading, started)]

\* lines 457-459: stop_live_stream or client_disconnected calls
\* stop_uploading
StopCommand ==
    /\ CmdStop
    /\ stopLog' = StopLogged(stopLog, is_uploading, start_time)

\* lines 500-504: the signal handler calls stop_uploading
StopAtShutdown ==
    /\ CmdShutdown
    /\ stopLog' = StopLogged(stopLog, is_uploading, start_time)

\* lines 454-456: start_live_stream: a new session follows
StartCommand ==
    /\ CmdStart
    /\ stopLog' = NoStops

stopRest == <<supVars, recVars, sweepVars, mntVars, metVars, scanLog,
              lightVars, casaVars, s3_key, prep>>

StopNext ==
    \/ StartCommand /\ UNCHANGED stopRest
    \/ StopCommand /\ UNCHANGED stopRest
    \/ StopAtShutdown /\ UNCHANGED stopRest
    \/ StopTeardown /\ UNCHANGED hlsRest
    \/ StartSession /\ UNCHANGED hlsRest
    \/ StartThread /\ UNCHANGED hlsRest
    \/ \E f \in Files : HlsEncoderWrites(f) /\ UNCHANGED hlsRest
    \/ \E d \in Sessions : DispPoll(d) /\ UNCHANGED hlsRest
    \/ \E d \in Sessions : DispFile(d) /\ UNCHANGED hlsRest
    \/ \E d \in Sessions : DispSubmit(d) /\ UNCHANGED hlsRest
    \/ \E t \in tasks : TaskSkips(t) /\ UNCHANGED hlsRest
    \/ \E t \in tasks : TaskPushOk(t) /\ UNCHANGED hlsRest
    \/ \E t \in tasks : TaskPushFails(t) /\ UNCHANGED hlsRest
    \/ \E t \in tasks : TaskRemove(t) /\ UNCHANGED hlsRest
    \/ WsOpen /\ UNCHANGED hlsRest
    \/ WsLost /\ UNCHANGED hlsRest

(***************************************************************************)
(* THE SUPERVISOR'S HOUR DIRECTORY AND THE SWEEPER:                         *)
(* casa-cameras-local-writer.py 284-297, 342, 517-551                       *)
(* The supervisor makes the current hour's directory, launches ffmpeg, and *)
(* ffmpeg opens its first segment file once the camera's stream has begun. *)
(* The sweeper thread walks the same tree meanwhile.  The clock stands     *)
(* still here: the hour does not change and the sweeper's hour-long wait   *)
(* does not end.  prep follows the directory made for the next launch and  *)
(* what became of the encoder's first open; encFile, the open file of the  *)
(* clock-driven specifications, stays at rest.                             *)
(***************************************************************************)
NoPrep == [dir |-> None, opened |-> "none"]

StepIdle == s3_key = {} /\ stopLog = NoStops /\ prep = NoPrep

prepRest == <<hlsVars, sweepVars, mntVars, metRest, scanLog, lightVars,
              casaVars, s3_key, stopLog>>

\* lines 288-292: os.makedirs(.../%Y/%m/%d/%H, exist_ok=True) for
\* datetime.now(); when it raises, nothing is made (293-297)
PrepMkdir ==
    /\ SupMkdir
    /\ IF sup_pc' = "launch"
       THEN /\ dirs' = dirs \cup {HourDir(LocalMinute(now)),
                                  DayDir(LocalMinute(now))}
            /\ prep' = [dir |-> HourDir(LocalMinute(now)), opened |-> "made"]
       ELSE UNCHANGED <<dirs, prep>>
    /\ UNCHANGED <<now, dstAt, dstShift, files, encFile, segments, fin>>

\* line 342: Popen; the new process has not opened a file yet
PrepLaunch ==
    /\ SupLaunchOk
    /\ prep' = [prep EXCEPT !.opened = "pending"]
    /\ UNCHANGED recVars

\* lines 303, 325-329: the segment muxer opens MM_temp.mp4 under the
\* pattern's %Y/%m/%d/%H; ffmpeg makes no directories, so without the
\* hour's directory the open fails and ffmpeg exits
EncoderOpens ==
    /\ ffmpeg_process \in alive
    /\ prep.opened = "pending"
    /\ LET m == LocalMinute(now)
       IN  IF HourDir(m) \in dirs
           THEN /\ files' = (files \ TempNamed(files, m))
                                \cup {TempFile(m, now)}
                /\ prep' = [prep EXCEPT !.opened = "ok"]
                /\ UNCHANGED alive
           ELSE /\ alive' = alive \ {ffmpeg_process}
                /\ prep' = [prep EXCEPT !.opened = "lost"]
                /\ UNCHANGED files
    /\ UNCHANGED <<stop_event, sup_pc, current_retries, ffmpeg_process, pipe,
                   waitSecs, waitCause, launchCount, crashStreak, diskCheck,
                   sinceLaunch, emitted, now, dstAt, dstShift, dirs, encFile,
                   segments, fin>>

\* no signal arrives, every Popen succeeds and the encoder writes nothing
\* to its pipe: the supervisor waits in readline until the encoder exits
PrepNext ==
    \/ SupLoop /\ UNCHANGED supRest
    \/ SupDiskCheck /\ UNCHANGED supRest
    \/ PrepMkdir /\ UNCHANGED prepRest
    \/ PrepLaunch /\ UNCHANGED prepRest
    \/ SupMonCheck /\ UNCHANGED supRest
    \/ SupReadEof /\ UNCHANGED supRest
    \/ SupCrash /\ UNCHANGED supRest
    \/ SupWaitDone /\ UNCHANGED supRest
    \/ EncoderOpens /\ UNCHANGED prepRest
    \/ EncoderExits /\ UNCHANGED supRest
    \/ SweepBegin /\ UNCHANGED sweepRest
    \/ \E d \in sweep.walk : SweepEnterDir(d) /\ UNCHANGED sweepRest
    \/ \E m \in sweep.todo : SweepFile(m) /\ UNCHANGED sweepRest
    \/ SweepRmdir /\ UNCHANGED sweepRest

(***************************************************************************)
(* THE UPLOAD WORKER STEP BY STEP: hls.py upload_file_to_s3                 *)
(* The worker reads the global s3_prefix when it builds its key (line 268)  *)
(* and the file's bytes later, inside s3_client.upload_file (277-285); the  *)
(* command handler runs on another thread and may stop the session and      *)
(* start the next one between the two.  Here the two reads are two steps.   *)
(***************************************************************************)
\* the worker of task t once it has built its key
Keyed(t) == [t EXCEPT !.pc = "keyed"]

\* lines 258-268: the client is there and the file exists; the worker
\* builds s3_key from the s3_prefix of this moment
TaskReadsKey(t) ==
    /\ t \in tasks
    /\ t.pc = "queued"
    /\ s3_client
    /\ localFiles[t.dir][t.file] # 0
    /\ tasks' = (tasks \ {t}) \cup {Keyed(t)}
    /\ s3_key' = s3_key \cup {[task |-> Keyed(t), key |-> s3_prefix]}
    /\ UNCHANGED <<pings, ws_connected, lastMetric, s3_client, is_uploading,
                   hls_ffmpeg_process, current_run_id, s3_prefix, start_time,
                   current_output_dir, upload_in_progress, localDirs,
                   localFiles, remote, cmd_pc, cmd_after, disp, sessionCount,
                   nextVer>>

\* lines 277-286: upload_file opens the file at the task's path and puts its
\* bytes under the key built before
TaskPushKeyed(t) ==
    /\ t \in tasks
    /\ t.pc = "keyed"
    /\ localFiles[t.dir][t.file] # 0
    /\ \E k \in s3_key :
         /\ k.task = t
         /\ remote' = remote \cup {[prefix |-> k.key, file |-> t.file,
                                    ver |-> localFiles[t.dir][t.file]]}
    /\ tasks' = TasksAfterPush(t, TRUE)
    /\ s3_key' = {k \in s3_key : k.task # t}
    /\ UNCHANGED <<pings, ws_connected, lastMetric, s3_client, is_uploading,
                   hls_ffmpeg_process, current_run_id, s3_prefix, start_time,
                   current_output_dir, upload_in_progress, localDirs,
                   localFiles, cmd_pc, cmd_after, disp, sessionCount,
                   nextVer>>

\* lines 294-302: upload_file raises, because the file has gone since the
\* test of line 262 or because the sink refuses the put; the finally clause
TaskPushKeyedFails(t) ==
    /\ t \in tasks
    /\ t.pc = "keyed"
    /\ tasks' = TasksAfterPush(t, FALSE)
    /\ s3_key' = {k \in s3_key : k.task # t}
    /\ upload_in_progress' = ClearedInFlight(upload_in_progress, t.file)
    /\ UNCHANGED <<pings, ws_connected, lastMetric, s3_client, is_uploading,
                   hls_ffmpeg_process, current_run_id, s3_prefix, start_time,
                   current_output_dir, localDirs, localFiles, remote, cmd_pc,
                   cmd_after, disp, sessionCount, nextVer>>

keyRest == <<supVars, recVars, sweepVars, mntVars, metVars, scanLog,
             lightVars, casaVars, stopLog, prep>>

KeyNext ==
    \/ CmdStart /\ UNCHANGED hlsRest
    \/ CmdStop /\ UNCHANGED hlsRest
    \/ StopTeardown /\ UNCHANGED hlsRest
    \/ StartSession /\ UNCHANGED hlsRest
    \/ StartThread /\ UNCHANGED hlsRest
    \/ \E f \in Files : HlsEncoderWrites(f) /\ UNCHANGED hlsRest
    \/ \E d \in Sessions : DispPoll(d) /\ UNCHANGED hlsRest
    \/ \E d \in Sessions : DispFile(d) /\ UNCHANGED hlsRest
    \/ \E d \in Sessions : DispSubmit(d) /\ UNCHANGED hlsRest
    \/ \E t \in tasks : TaskSkips(t) /\ UNCHANGED hlsRest
    \/ \E t \in tasks : TaskReadsKey(t) /\ UNCHANGED keyRest
    \/ \E t \in tasks : TaskPushKeyed(t) /\ UNCHANGED keyRest
    \/ \E t \in tasks : TaskPushKeyedFails(t) /\ UNCHANGED keyRest
    \/ \E t \in tasks : TaskRemove(t) /\ UNCHANGED hlsRest
    \/ WsOpen /\ UNCHANGED hlsRest

(***************************************************************************)
(* Specifications                                                           *)
(***************************************************************************)
\* the recorder's files and finalizer at rest
FinIdle == FinStart({}) /\ ClockIdle /\ SweepIdle /\ MountIdle

\* the histories and programs of the later specifications at rest
ExtIdle == scanLog = NoScans /\ LightIdle /\ CasaIdle /\ StepIdle

SupSpecInit == SupInit /\ HlsIdle /\ FinIdle /\ MetIdle /\ ExtIdle

SupSpec == SupSpecInit /\ [][SupNext]_vars

\* the supervisor thread is scheduled whenever it can take a step; the
\* encoder and the signal are the environment and owe nothing
SupSpecFair == SupSpec /\ WF_vars(SupervisorStep)

HlsSpecInit == HlsInit /\ SupInit /\ FinIdle /\ MetIdle /\ ExtIdle

HlsSpec == HlsSpecInit /\ [][HlsNext]_vars

FinSpecInit ==
    ClockInit /\ FinInit /\ SweepIdle /\ SupInit /\ HlsIdle /\ MountIdle
        /\ MetIdle /\ ExtIdle

FinSpec == FinSpecInit /\ [][FinNext]_vars

SweepSpecInit ==
    SweepClockInit /\ SweepInit /\ SupInit /\ HlsIdle /\ MountIdle
        /\ MetIdle /\ ExtIdle

SweepSpec == SweepSpecInit /\ [][SweepNext]_vars

MountSpecInit ==
    /\ MountInit /\ SupInit /\ HlsIdle
    /\ FinStart({}) /\ ClockIdle /\ SweepIdle /\ MetIdle /\ ExtIdle

MountSpec == MountSpecInit /\ [][MountNext]_vars

ScanSpecInit ==
    /\ ClockIdle /\ ScanInit /\ SupInit /\ SweepIdle /\ HlsIdle /\ MountIdle
    /\ MetIdle /\ LightIdle /\ CasaIdle /\ StepIdle

ScanSpec == ScanSpecInit /\ [][ScanNext]_vars

LightSpecInit ==
    /\ LightInit /\ scanLog = NoScans /\ CasaIdle /\ StepIdle
    /\ SupInit /\ HlsIdle /\ FinIdle /\ MetIdle

LightSpec == LightSpecInit /\ [][LightNext]_vars

CasaSpecInit ==
    /\ CasaInit /\ scanLog = NoScans /\ LightIdle /\ StepIdle
    /\ SupInit /\ HlsIdle /\ FinIdle /\ MetIdle

CasaSpec == CasaSpecInit /\ [][CasaNext]_vars

\* the streamer with its client, its workers taken step by step
KeySpecInit ==
    /\ HlsIdle /\ StepIdle /\ scanLog = NoScans /\ LightIdle /\ CasaIdle
    /\ SupInit /\ FinIdle /\ MetIdle

KeySpec == KeySpecInit /\ [][KeyNext]_vars

\* the streamer with the record of its stop_uploading calls
StopSpecInit ==
    /\ HlsInit /\ StepIdle /\ scanLog = NoScans /\ LightIdle /\ CasaIdle
    /\ SupInit /\ FinIdle /\ MetIdle

StopSpec == StopSpecInit /\ [][StopNext]_vars

\* the recorder starts on a disk that is empty or holds one recording older
\* than the retention window
PrepSpecInit ==
    /\ SupInit /\ HlsIdle /\ MountIdle /\ MetIdle
    /\ now = SweepInstant /\ dstAt = NoDst /\ dstShift = 0
    /\ \E old \in {{}, {FinalFile(OldMinute(1), SweepInstant - DaySeconds
                            - RetentionSeconds(DEFAULT_RETENTION_DAYS))}} :
           SweepStartsWith(old)
    /\ scanLog = NoScans /\ LightIdle /\ CasaIdle /\ StepIdle

PrepSpec == PrepSpecInit /\ [][PrepNext]_vars

\* The recorder and the streamer side by side: the finalizer works on a temp
\* file an earlier run left in the staging tree (casa-cameras-local-writer
\* 597-605 starts no uploading thread), while the streamer runs one session
\* whose dispatcher lists the session's own temporary directory (hls.py
\* 319-327).
\* lines 173-237: one iteration of system_metrics_emitter, from the test of
\* stop_event to the end of stop_event.wait: psutil may raise before the
\* first emit_metric; every exception, of psutil or of emit_metric, is
\* caught by the except clauses of the iteration, which log it
MetIterate ==
    /\ met_pc = "loop"
    /\ IF stop_event
       THEN met_pc' = "stopped" /\ UNCHANGED emitted
       ELSE /\ met_pc' = "loop"
            /\ \E psutil_raises \in BOOLEAN, o \in EmitOutcomes :
                   emitted' = IF psutil_raises THEN emitted ELSE o
    /\ UNCHANGED cloudwatch_client

\* lines 597-605: the recorder starts its four threads, with or without a
\* metrics client, on an output directory that holds a leftover temp file
LoopsSpecInit ==
    /\ ClockIdle /\ FinStart({[EarlierSegment EXCEPT !.temp = TRUE]})
    /\ SupInit /\ SweepIdle /\ MetInit /\ HlsIdle /\ MountIdle /\ ExtIdle

\* the four loops of the recorder side by side and the signal handler, on a
\* host where the encoder cannot be started: every iteration of the
\* supervisor ends in a failed check, a failed mkdir or a failed launch;
\* renames and removals may fail; the sweeper is followed over one sweep
LoopsNext ==
    \/ SupLoop /\ UNCHANGED supRest
    \/ SupDiskCheck /\ UNCHANGED supRest
    \/ SupMkdir /\ UNCHANGED supRest
    \/ SupLaunchNotFound /\ UNCHANGED supRest
    \/ SupLaunchError /\ UNCHANGED supRest
    \/ SupWaitDone /\ UNCHANGED supRest
    \/ SignalShutdown /\ UNCHANGED supRest
    \/ FinScanStart /\ UNCHANGED finRest
    \/ \E m \in fin.todo : FinDecide(m) /\ UNCHANGED finRest
    \/ FinAct /\ UNCHANGED finRest
    \/ FinActFails /\ UNCHANGED finRest
    \/ FinWaitDone /\ UNCHANGED finRest
    \/ SweepBegin /\ sweepCount' <= 1 /\ UNCHANGED sweepRest
    \/ \E d \in sweep.walk : SweepEnterDir(d) /\ UNCHANGED sweepRest
    \/ \E m \in sweep.todo : SweepFile(m) /\ UNCHANGED sweepRest
    \/ \E m \in sweep.todo : SweepFileFails(m) /\ UNCHANGED sweepRest
    \/ SweepRmdir /\ UNCHANGED sweepRest
    \/ SweepSleep /\ UNCHANGED sweepRest
    \/ MetIterate
          /\ UNCHANGED <<supVars, hlsVars, recVars, sweepVars, mntVars,
                         extVars>>

LoopsSpec == LoopsSpecInit /\ [][LoopsNext]_vars

\* (two temp files an earlier run left behind, a minute apart, an hour old)
PipeSpecInit ==
    /\ ClockIdle
    /\ FinStart({[EarlierSegment EXCEPT !.temp = TRUE],
                 TempFile(EarlierSegment.min + 1,
                          EarlierSegment.mtime + SEGMENT_DURATION_SECONDS)})
    /\ HlsInit /\ SupInit /\ SweepIdle /\ MountIdle /\ MetIdle /\ ExtIdle

FinalizerStep ==
    \/ FinScanStart /\ UNCHANGED finRest
    \/ \E m \in fin.todo : FinDecide(m) /\ UNCHANGED finRest
    \/ FinAct /\ UNCHANGED finRest
    \/ FinActFails /\ UNCHANGED finRest

DispatcherStep ==
    \/ \E d \in Sessions : DispPoll(d) /\ UNCHANGED hlsRest
    \/ \E d \in Sessions : DispFile(d) /\ UNCHANGED hlsRest
    \/ \E d \in Sessions : DispSubmit(d) /\ UNCHANGED hlsRest

WorkerStep ==
    \/ \E t \in tasks : TaskSkips(t) /\ UNCHANGED hlsRest
    \/ \E t \in tasks : TaskPushOk(t) /\ UNCHANGED hlsRest
    \/ \E t \in tasks : TaskPushFails(t) /\ UNCHANGED hlsRest
    \/ \E t \in tasks : TaskRemove(t) /\ UNCHANGED hlsRest

PipeNext ==
    \/ FinScanStart /\ UNCHANGED finRest
    \/ \E m \in fin.todo : FinDecide(m) /\ UNCHANGED finRest
    \/ FinAct /\ UNCHANGED finRest
    \/ FinActFails /\ UNCHANGED finRest
    \/ \E m \in fin.todo : TempVanishes(m) /\ UNCHANGED finRest
    \/ WsOpen /\ UNCHANGED hlsRest
    \/ CmdPing /\ UNCHANGED hlsRest
    \/ CmdStart /\ sessionCount = 0 /\ UNCHANGED hlsRest
    \/ StartSession /\ UNCHANGED hlsRest
    \/ StartThread /\ UNCHANGED hlsRest
    \/ \E f \in Files : HlsEncoderWrites(f) /\ UNCHANGED hlsRest
    \/ \E d \in Sessions : DispPoll(d) /\ UNCHANGED hlsRest
    \/ \E d \in Sessions : DispFile(d) /\ UNCHANGED hlsRest
    \/ \E d \in Sessions : DispSubmit(d) /\ UNCHANGED hlsRest
    \/ \E t \in tasks : TaskSkips(t) /\ UNCHANGED hlsRest
    \/ \E t \in tasks : TaskPushOk(t) /\ UNCHANGED hlsRest
    \/ \E t \in tasks : TaskPushFails(t) /\ UNCHANGED hlsRest
    \/ \E t \in tasks : TaskRemove(t) /\ UNCHANGED hlsRest

\* the finalizer, the dispatcher and the workers are threads that run when
\* they can; the encoder and the commands are the environment
PipeSpecFair ==
    /\ PipeSpecInit /\ [][PipeNext]_vars
    /\ WF_vars(FinalizerStep) /\ WF_vars(DispatcherStep) /\ WF_vars(WorkerStep)

(***************************************************************************)
(* Claims about the supervisor                                              *)
(***************************************************************************)

\* C1: after every sequence of consecutive encoder crashes the supervisor
\* waits FFMPEG_RETRY_DELAY_SECONDS while the number of consecutive crashes
\* is at most FFMPEG_MAX_RETRIES, and from the 6th consecutive crash on it
\* is in the long pause FFMPEG_LONG_RETRY_PAUSE_SECONDS.
C1_SixthCrashLongPause ==
    (sup_pc = "wait" /\ waitCause \in {"crash", "crash_long"}) =>
        waitSecs = IF crashStreak > FFMPEG_MAX_RETRIES
                   THEN FFMPEG_LONG_RETRY_PAUSE_SECONDS
                   ELSE FFMPEG_RETRY_DELAY_SECONDS

\* C8: at no instant are two encoder processes launched by the supervisor
\* alive at once.
C8_OneEncoderAlive == Cardinality(alive) <= 1

\* a relaunched encoder is running after the exception handler had to stop
\* a running predecessor
C8_Witness ==
    /\ launchCount >= 2
    /\ ffmpeg_process \in alive
    /\ waitCause = "exc_kill"

\* C9: once the shutdown signal is set while an encoder is running, the
\* supervisor eventually leaves its loop and no encoder process is alive.
C9_ShutdownStopsEncoder ==
    (stop_event /\ alive # {}) ~> (alive = {} /\ sup_pc = "stopped")

(***************************************************************************)
(* Claims about the HLS streamer                                            *)
(***************************************************************************)

\* versions the sink has accepted, under any prefix
UploadedVers == {r.ver : r \in remote}

\* C2: at no instant are two uploads of the same filename outstanding
\* (queued or running in a worker pool).
C2_OneUploadPerFile ==
    \A f \in Files : Cardinality({t \in tasks : t.file = f}) <= 1

\* C3: a local file is removed from local storage only after an upload of
\* that same file version has been confirmed successful, whichever
\* operation removes it.
C3_RemovedOnlyAfterUpload ==
    [][\A d \in Sessions, f \in Files :
          (localFiles[d][f] # 0 /\ localFiles'[d][f] = 0)
              => localFiles[d][f] \in UploadedVers]_vars

\* C4: when an upload of a file fails, the local file still exists with an
\* unchanged fingerprint and the fingerprint the dispatcher has recorded for
\* it is not that of the file, so that the next poll cycle resubmits it.
C4_FailedUploadIsRetried ==
    [][\A t \in tasks :
          (/\ t.pc = "queued"
           /\ t \notin tasks'
           /\ [t EXCEPT !.pc = "pushed"] \notin tasks'
           /\ s3_client
           /\ localFiles[t.dir][t.file] # 0)
          => /\ localFiles'[t.dir][t.file] = localFiles[t.dir][t.file]
             /\ disp'[t.by].existing_files[t.file]
                    # localFiles[t.dir][t.file]]_vars

\* a version of file f sits in the active session's directory, was never
\* uploaded, has no upload outstanding, and every running dispatcher is
\* between two poll cycles with exactly this version recorded as seen: no
\* poll cycle submits it again, so it is never uploaded
Abandoned(f) ==
    /\ s3_client
    /\ is_uploading
    /\ cmd_pc = "idle"
    /\ current_output_dir # None
    /\ localFiles[current_output_dir][f] # 0
    /\ localFiles[current_output_dir][f] \notin UploadedVers
    /\ ~upload_in_progress[f]
    /\ \A t \in tasks : t.file # f
    /\ \E d \in Sessions : disp[d].pc = "poll"
    /\ \A d \in Sessions :
          disp[d].pc \notin {"none", "done"} =>
              /\ disp[d].pc = "poll"
              /\ disp[d].existing_files[f] = localFiles[current_output_dir][f]

\* C5: every distinct version of a .m3u8 or .ts file that appears in the
\* active session's output directory is eventually uploaded at least once;
\* so no version is ever left in a state from which it cannot be uploaded.
C5_NoVersionAbandoned == \A f \in Files : ~Abandoned(f)

(***************************************************************************)
(* Claims about the finalizer                                               *)
(***************************************************************************)

\* C6: the finalizer never renames a temp file whose age, the scan time
\* minus the file's last-modified time, is below SEGMENT_DURATION_SECONDS
\* + 10 = 70 seconds, and a file of age exactly 70 is eligible: whenever it
\* passes a file over as too recent, the file's age is below 70.
C6_RenameOnlyFromAge70 ==
    [][/\ \A f \in TempFiles(files) :
             (/\ f \notin files'
              /\ [f EXCEPT !.temp = FALSE] \in files'
              /\ [f EXCEPT !.temp = FALSE] \notin files)
             => fin.now_ts - f.mtime >= SEGMENT_DURATION_SECONDS + 10
       /\ (fin.pc = "file" /\ fin' # fin /\ fin'.did = "young")
             => \E f \in TempNamed(files, fin'.cur) :
                    fin.now_ts - f.mtime < SEGMENT_DURATION_SECONDS + 10
      ]_vars

\* a scan has just renamed a file that was exactly 70 seconds old
C6_Witness ==
    /\ fin.did = "renamed"
    /\ \E f \in FinalNamed(files, fin.cur) :
           fin.now_ts - f.mtime = SEGMENT_DURATION_SECONDS + 10

\* C7: in every interleaving with the encoder, the finalizer neither renames
\* nor deletes the temp file the encoder has open: while the encoder has its
\* file open, no step takes that file away from its temp path.
C7_OpenFileUntouched ==
    [][(encFile # NoFile /\ TempNamed(files, encFile) # {})
          => TempNamed(files', encFile) # {}]_vars

(***************************************************************************)
(* Claims about the retention sweeper                                       *)
(***************************************************************************)

\* C10: the sweeper never deletes a file whose modification time is at or
\* after the cutoff, the sweep's start minus the retention window; and of
\* files aged a second less and a second more than the window, a sweep
\* removes only the older: when the sweep is over, no final file from before
\* the cutoff is left.
C10_DeletesOnlyBeforeCutoff ==
    [][/\ \A f \in files :
             (IsCleanupTarget(f) /\ f \notin files')
             => f.mtime < sweep.started
                              - RetentionSeconds(DEFAULT_RETENTION_DAYS)
       /\ (sweep.pc = "rmdir" /\ sweep'.pc = "sleep")
             => \A f \in files' :
                    IsCleanupTarget(f) => f.mtime >= sweep.started
                                   - RetentionSeconds(DEFAULT_RETENTION_DAYS)
      ]_vars

(***************************************************************************)
(* C11: every launch of the encoder happens in a loop iteration whose       *)
(* capacity check found the mount present and its usage not over the limit; *)
(* a check that finds usage over the limit is followed by the 60 s wait,    *)
(* not by a launch, and that wait leads back to the top of the loop, where  *)
(* the check is made again.                                                 *)
(***************************************************************************)
C11_LaunchOnlyAfterCheck ==
    [] [/\ launchCount' # launchCount =>
              /\ diskCheck.found = "usage"
              /\ diskCheck.percent <= DEFAULT_DISK_LIMIT_PERCENT
        /\ sup_pc' \in {"mkdir", "launch"} =>
              /\ diskCheck'.found = "usage"
              /\ diskCheck'.percent <= DEFAULT_DISK_LIMIT_PERCENT
        /\ ( /\ sup_pc = "disk"
             /\ diskCheck'.found = "usage"
             /\ diskCheck'.percent > DEFAULT_DISK_LIMIT_PERCENT ) =>
              /\ sup_pc' = "wait"
              /\ waitSecs' = 60
              /\ launchCount' = launchCount
        /\ (sup_pc = "wait" /\ sup_pc' # "wait") => sup_pc' = "loop"
        /\ (sup_pc = "loop" /\ sup_pc' # "loop") => sup_pc' \in {"disk", "stopped"}
       ]_vars

\* a relaunch that followed a pause for a full disk
C11_Witness ==
    /\ launchCount = 2
    /\ sup_pc = "mon_check"
    /\ waitCause = "disk_full"
    /\ diskCheck.found = "usage"

(***************************************************************************)
(* C12: the disk guard refuses whenever usage >= the limit: while the       *)
(* latest capacity check of the iteration reads a usage equal to or above   *)
(* the limit, the supervisor is in the 60 s pause for a full disk.          *)
(***************************************************************************)
C12_RefusesAtLimit ==
    ( /\ diskCheck.found = "usage"
      /\ diskCheck.percent >= DEFAULT_DISK_LIMIT_PERCENT ) =>
        /\ sup_pc = "wait"
        /\ waitCause = "disk_full"
        /\ waitSecs = DISK_PAUSE_SECONDS

(***************************************************************************)
(* C13: mount resolution returns, among the mounted filesystems whose       *)
(* mount point is a whole-component path prefix of the output directory     *)
(* (the output directory itself included), the one with the longest path;   *)
(* '/' only when no other mount contains the output directory.              *)
(***************************************************************************)
C13_LongestContainingMount ==
    output_mount_point # Unresolved =>
        LET mounted == {partitions[i] : i \in DOMAIN partitions}
            containing ==
                {mp \in mounted \ {Root} :
                    \/ mp = output_dir
                    \/ /\ StartsWith(output_dir, mp)
                       /\ output_dir[Len(mp) + 1] = Sep}
        IN  IF containing = {}
            THEN output_mount_point = Root
            ELSE /\ output_mount_point \in containing
                 /\ \A mp \in containing : Len(mp) <= Len(output_mount_point)

(***************************************************************************)
(* C14: at most one stream session is active: once a start command has     *)
(* been handled, the dispatcher loop of every earlier session has stopped   *)
(* and only the new session's loop runs.                                    *)
(***************************************************************************)
C14_OneDispatcherLoop ==
    cmd_pc = "idle" =>
        \A d \in Sessions :
            d < sessionCount => disp[d].pc \in {"none", "done"}

(***************************************************************************)
(* C15: when the command connection is lost while a session is active, the  *)
(* handling of the loss deactivates the upload loop (is_uploading becomes   *)
(* False), with no stop message.                                            *)
(***************************************************************************)
C15_LostConnectionStopsSession ==
    [][(ws_connected /\ ~ws_connected' /\ is_uploading) => ~is_uploading']_vars

(***************************************************************************)
(* C16: within one poll cycle of a dispatcher, no data file (.ts) is        *)
(* submitted before a manifest (.m3u8) that the same cycle submits.         *)
(***************************************************************************)
C16_ManifestSubmittedFirst ==
    \A d \in Sessions :
        \A i, j \in DOMAIN disp[d].cycle :
            i < j => ~(disp[d].cycle[i] \in TsFiles
                       /\ disp[d].cycle[j] \in M3u8Files)

\* a cycle that submitted both the manifest and the data file
C16_Witness ==
    \E d \in Sessions : disp[d].cycle = <<"stream.m3u8", "segment_000.ts">>

(***************************************************************************)
(* C17: a worker whose push succeeded leaves no local file behind when it   *)
(* finishes, whether the metric emission after the push succeeded or not.   *)
(***************************************************************************)
C17_PushedFileIsRemoved ==
    [][\A t \in tasks :
          (t.pc = "pushed" /\ t \notin tasks') =>
              localFiles'[t.dir][t.file] = 0]_vars

\* a worker has finished after a push that succeeded and a metric that failed
C17_Witness ==
    /\ lastMetric = "failed"
    /\ remote # {}
    /\ tasks = {}

(***************************************************************************)
(* C18: a file identity (name, mtime, size: a version) is submitted at      *)
(* most once: a dispatcher never submits a version that a dispatcher has    *)
(* recorded as submitted.                                                   *)
(***************************************************************************)
C18_SubmittedAtMostOnce ==
    [][\A d \in Sessions :
          (disp[d].pc = "submit" /\ disp'[d].pc # "submit") =>
              \A e \in Sessions :
                  disp[e].existing_files[Head(disp[d].todo)] # disp[d].ver]_vars

(***************************************************************************)
(* C19: a rename never replaces an existing final file, so a final name is  *)
(* produced at most once; when the final path already exists the finalizer  *)
(* deletes the temp file and leaves the final file as it was.               *)
(***************************************************************************)
C19_RenameNeverReplaces ==
    [][/\ \A f \in TempFiles(files) :
             (/\ f \notin files'
              /\ [f EXCEPT !.temp = FALSE] \in files')
             => FinalNamed(files, f.min) = {}
       /\ \A m \in {f.min : f \in files} :
             FinalNamed(files, m) # {} => FinalNamed(files', m) = FinalNamed(files, m)
       /\ (fin.pc = "act" /\ fin.act = "remove" /\ fin' # fin) =>
             /\ TempNamed(files', fin.cur) = {}
             /\ FinalNamed(files', fin.cur) = FinalNamed(files, fin.cur)
             /\ FinalNamed(files, fin.cur) # {}
      ]_vars

\* the finalizer has just deleted a temp file whose final file exists
C19_Witness ==
    /\ fin.did = "removed"
    /\ FinalNamed(files, fin.cur) # {}
    /\ TempNamed(files, fin.cur) = {}

(***************************************************************************)
(* C20 as stated: with segment duration 60 s and grace 10 s, a scan that    *)
(* finds a temp file last written 65 s before the scan renames it to its    *)
(* final name.                                                              *)
(***************************************************************************)
C20_RenamedAtAge65 ==
    [][\A f \in TempFiles(files) :
          (/\ fin.pc = "file" /\ fin' # fin /\ fin'.cur = f.min
           /\ FinalNamed(files, f.min) = {}
           /\ fin.now_ts - f.mtime = 65)
          => (fin'.pc = "act" /\ fin'.act = "rename")]_vars

(***************************************************************************)
(* C20 amended: a scan that finds a temp file last written 65 s before the  *)
(* scan passes it over (65 < 60 + 10) and leaves it in place; a scan that   *)
(* finds it 70 s or more after its last write goes on to rename it.         *)
(***************************************************************************)
C20_SkippedAtAge65 ==
    [][\A f \in TempFiles(files) :
          (/\ fin.pc = "file" /\ fin' # fin /\ fin'.cur = f.min
           /\ FinalNamed(files, f.min) = {})
          => /\ fin.now_ts - f.mtime = 65 =>
                   (fin'.did = "young" /\ fin'.act = "none" /\ files' = files)
             /\ fin.now_ts - f.mtime >= 70 =>
                   (fin'.pc = "act" /\ fin'.act = "rename")]_vars

\* a scan has just passed over a temp file last written 65 s before it
C20_Witness ==
    /\ fin.did = "young"
    /\ \E f \in TempNamed(files, fin.cur) : fin.now_ts - f.mtime = 65

(***************************************************************************)
(* C21: every segment the finalizer has renamed to its final name is        *)
(* eventually uploaded to the remote sink (an object that is not one of the *)
(* streamer's own playlist or segment files) and its local copy is gone.    *)
(***************************************************************************)
C21_FinalizedIsUploaded ==
    (FinalNamed(files, EarlierSegment.min) # {})
        ~> (/\ FinalNamed(files, EarlierSegment.min) = {}
            /\ \E o \in remote : o.file \notin Files)

(***************************************************************************)
(* C22: the consecutive-failure counter is reset only after the long pause  *)
(* or after the encoder has run for a minimum uptime: the step that         *)
(* launches the encoder, at which it has not run at all, leaves the counter *)
(* as it was, so that back-to-back immediate crashes add up.                *)
(***************************************************************************)
C22_NoResetAtLaunch ==
    [][launchCount' # launchCount => current_retries' = current_retries]_vars

(***************************************************************************)
(* C23: once the shutdown signal is set, the supervisor loop finishes at    *)
(* most its current iteration, starts no new one and terminates (the same   *)
(* is claimed of the metrics emitter, the finalizer and the sweeper, whose   *)
(* loops test stop_event and sleep in stop_event.wait).  The supervisor     *)
(* does not: while it is inside stdout.readline() (line 356) of an encoder  *)
(* that is alive and silent it never tests stop_event again.                *)
(***************************************************************************)
C23_ShutdownEndsSupervisor == stop_event ~> (sup_pc = "stopped")

(***************************************************************************)
(* C25: a capacity check that finds no mount point, or that raises, counts  *)
(* as over the threshold: the supervisor goes into a 60 s wait without      *)
(* reaching the directory creation or the launch, launches no encoder in    *)
(* that iteration, and after the wait starts the next iteration, which      *)
(* checks again.                                                            *)
(***************************************************************************)
C25_FailedCheckPausesLaunch ==
    [][/\ diskCheck'.found \in {"missing", "error"} =>
             /\ launchCount' = launchCount
             /\ alive' \subseteq alive
             /\ \/ sup_pc' = "wait" /\ waitSecs' = DISK_PAUSE_SECONDS
                \/ sup_pc' = "loop" /\ sup_pc \in {"wait", "loop"}
       /\ ( /\ diskCheck.found \in {"missing", "error"}
            /\ sup_pc = "loop" /\ sup_pc' # "loop" ) =>
             /\ sup_pc' = IF stop_event THEN "stopped" ELSE "disk"
             /\ diskCheck' = NoDiskCheck
      ]_vars

\* after a launch, a check has raised and the supervisor is in its 60 s wait
C25_Witness ==
    /\ launchCount = 1
    /\ diskCheck.found = "error"
    /\ sup_pc = "wait"
    /\ waitSecs = DISK_PAUSE_SECONDS
    /\ ~stop_event

(***************************************************************************)
(* C29: between two consecutive calls of Popen by the supervisor lies a     *)
(* wait of at least FFMPEG_RETRY_DELAY_SECONDS that ran to its timeout:     *)
(* whenever the supervisor leaves the launch step, by a successful launch,  *)
(* a missing binary or a launch exception, either Popen had not been called *)
(* before, or a full wait of 15 s or more has passed since it was.  (A wait *)
(* cut short by stop_event is followed by no launch at all.)                *)
(***************************************************************************)
C29_WaitBetweenLaunches ==
    [][(sup_pc = "launch" /\ sup_pc' # "launch") =>
          \/ sinceLaunch = NoLaunchYet
          \/ sinceLaunch >= FFMPEG_RETRY_DELAY_SECONDS
      ]_vars

\* a second encoder has been launched after the first one crashed, the
\* retry wait having run in full
C29_Witness ==
    /\ launchCount = 2
    /\ sup_pc = "mon_check"
    /\ waitCause = "crash"
    /\ sinceLaunch = 0
    /\ ~stop_event

(***************************************************************************)
(* C24: no loop of the recorder ends because of an error of one iteration.  *)
(* The supervisor, the finalizer, the sweeper and the metrics emitter leave *)
(* their loops only at the test of stop_event: a loop that has stopped has  *)
(* seen the shutdown signal, and no loop is ended by an exception, whatever *)
(* failed in its iterations (capacity check, mkdir, launch, rename, remove, *)
(* metric push).                                                            *)
(***************************************************************************)
C24_LoopsSurviveErrors ==
    /\ sup_pc # "dead"
    /\ sweep.pc # "dead"
    /\ sup_pc = "stopped" => stop_event
    /\ fin.pc = "stopped" => stop_event
    /\ sweep.pc = "stopped" => stop_event
    /\ met_pc = "stopped" => stop_event

\* with no shutdown signalled, the supervisor is at its next capacity check
\* after a launch exception, the finalizer has woken for its next scan after
\* a failed rename, the sweeper is at the head of its next iteration, and
\* the latest metric push failed
C24_Witness ==
    /\ ~stop_event
    /\ sup_pc = "disk" /\ waitCause = "exc_launch"
    /\ fin.pc = "wait" /\ fin.sleep = 0 /\ fin.did = "failed"
    /\ sweep.pc = "ready" /\ sweepCount = 1
    /\ met_pc = "loop"
    /\ emitted = "failed"

(***************************************************************************)
(* C26: a metrics sink that fails during an emit is not noticed by the      *)
(* caller.  Every emit_metric call of the recorder ends as a skip (no       *)
(* client: a no-op), a push, or a failed push that was logged, never as an  *)
(* exception; and the step that made the call leaves its thread where the   *)
(* step leaves it after a successful push: the supervisor in its wait (or   *)
(* monitoring, or stopped, after the status metrics), the sweeper in its    *)
(* interval sleep, the finalizer on to the next file of the scan (or to its *)
(* wait after the last), the metrics emitter in its loop.                   *)
(***************************************************************************)
C26_MetricFailureIsContained ==
    [][emitted' # emitted =>
          /\ ~cloudwatch_client => emitted' = "skipped"
          /\ emitted' \in {"skipped", "sent", "failed"}
          /\ sup_pc' # sup_pc => sup_pc' \in {"wait", "mon_check", "stopped"}
          /\ sweep' # sweep => sweep'.pc = "sleep"
          /\ fin' # fin =>
                /\ fin'.todo = fin.todo \ {fin.cur}
                /\ fin'.pc = IF fin'.todo = {} THEN "wait" ELSE "file"
          /\ met_pc' = met_pc
      ]_vars

\* the push of the sweep's counts has failed and the sweeper is in its
\* interval sleep; the supervisor has been through a pause and the finalizer
\* through a rename, each with its metric
C26_Witness ==
    /\ cloudwatch_client
    /\ emitted = "failed"
    /\ sweep.pc = "sleep"
    /\ waitCause = "notfound"
    /\ fin.did = "renamed"

(***************************************************************************)
(* C30: a temp file that is gone when the finalizer comes to it (after the  *)
(* directory listing) is passed over: the step that finds it gone emits no  *)
(* metric, creates no file, and goes on to the remaining temp files of the  *)
(* same scan.                                                               *)
(***************************************************************************)
C30_VanishedTempIsPassedOver ==
    [][( /\ fin.pc \in {"file", "act"}
         /\ fin' # fin
         /\ fin'.did = "vanished" ) =>
          /\ emitted' = emitted
          /\ files' = files
          /\ FinalNamed(files', fin'.cur) = {}
                \/ FinalNamed(files, fin'.cur) # {}
          /\ fin'.todo = fin.todo \ {fin'.cur}
          /\ fin'.pc = IF fin'.todo = {} THEN "wait" ELSE "file"
      ]_vars

\* the finalizer has found one listed temp file gone and is about to process
\* the other one, which is still there
C30_Witness ==
    /\ fin.did = "vanished"
    /\ fin.pc = "file"
    /\ \E m \in fin.todo : TempNamed(files, m) # {}

(***************************************************************************)
(* C27: handling a ping message changes no session state: is_uploading,     *)
(* the encoder process handle, the run id, the remote prefix and the output *)
(* directory are the same after the handler as before it, with or without   *)
(* an active session.                                                       *)
(***************************************************************************)
C27_PingChangesNothing ==
    [][pings' # pings =>
          UNCHANGED <<is_uploading, hls_ffmpeg_process, current_run_id,
                      s3_prefix, current_output_dir>>
      ]_vars

\* pings have been handled before the session and during it, and the
\* session is still active
C27_Witness ==
    /\ pings = 2
    /\ is_uploading
    /\ hls_ffmpeg_process # None
    /\ current_run_id # None

(***************************************************************************)
(* C28: the retention sweeper removes neither the output root nor any file  *)
(* that is temp-named (MM_temp.mp4) or is not an .mp4, however old they     *)
(* are: over every step the root directory stays, and every such file      *)
(* stays.                                                                   *)
(***************************************************************************)
C28_SweeperSparesRootAndOthers ==
    [][/\ RootDir \in dirs => RootDir \in dirs'
       /\ \A f \in files : (f.temp \/ f.ext # "mp4") => f \in files'
      ]_vars

\* a sweep is over: the output root is still there, the hour directory
\* still holds a temp-named file and a file that is not a recording, both
\* older than the cutoff, and the final recordings beside them are gone
C28_Witness ==
    /\ sweep.pc = "sleep"
    /\ RootDir \in dirs
    /\ \E f \in files : f.temp /\ OlderThanCutoff(f.mtime, sweep.cutoff_time)
    /\ \E f \in files :
          f.ext # "mp4" /\ OlderThanCutoff(f.mtime, sweep.cutoff_time)
    /\ \A f \in files : ~IsCleanupTarget(f)

(***************************************************************************)
(* Claims about repeated operations                                         *)
(***************************************************************************)

\* C31: the finalizer scan is idempotent: when a scan has run to its end
\* with no failed removal or rename, a second scan at the same instant, on
\* files nothing else has touched, renames nothing and deletes nothing.
C31_SecondScanChangesNothing ==
    [][(scanLog.begun >= 2 /\ ~scanLog.failed) => files' = files]_vars

\* the second scan has run to its end, passing over a temp file that is
\* still too recent, after the first scan renamed or removed a file
C31_Witness ==
    /\ scanLog.begun = 2 /\ ~scanLog.failed /\ scanLog.acted
    /\ fin.pc = "wait" /\ fin.sleep = RENAME_CHECK_INTERVAL_SECONDS
    /\ fin.did = "young"
    /\ \E f \in files : ~f.temp

\* C32: the sweeper removes a directory only when it is empty at that
\* moment, and once a sweep that ran alone is over no empty directory is
\* left below the output root, the ancestors emptied by the removal of
\* their children in that sweep included.
C32_EmptyDirsRemovedBottomUp ==
    [][/\ \A d \in dirs \ dirs' : DirEmpty(d, dirs, files)
       /\ sweep'.pc = "sleep" =>
              \A d \in dirs' \ {RootDir} : ~DirEmpty(d, dirs', files')]_vars

\* a sweep is over that listed two old recordings in two hour directories
\* of one day, removed them, the hour directories and then the day
C32_Witness ==
    /\ sweep.pc = "sleep" /\ sweepCount = 1
    /\ Cardinality(sweep.snap) = 2
    /\ dirs = {RootDir} /\ files = {}

(***************************************************************************)
(* Claims about the outdoor lighting controller                             *)
(***************************************************************************)

\* C33: a light found on after 21:00 is not turned off by the controller
\* until at least 15 minutes after the controller first found it on, and
\* the first check after those 15 minutes turns it off, whatever the timing
\* of the checks, of the cleanup of grace periods and of midnight.
C33_GraceOfFifteenMinutes ==
    [][/\ (is_on /\ ~is_on' /\ seenOn # NeverSeen)
             => light_now - seenOn >= after_hours_grace_period
       /\ (/\ lit.pc = "check" /\ lit'.pc = "cleanup"
           /\ is_on /\ seenOn # NeverSeen
           /\ light_now - seenOn >= after_hours_grace_period)
             => (~is_on' \/ device_grace_periods' = device_grace_periods)
      ]_vars

(***************************************************************************)
(* Claims about the security sensor program                                 *)
(***************************************************************************)

\* C34: auto_arm_disarm changes the mode from Arm Stay to Disarm only when
\* the Arm Stay in force was set automatically (last_arm_was_auto); an Arm
\* Stay set by a command is never disarmed automatically.
C34_AutoDisarmOnlyAfterAutoArm ==
    [][(/\ main_pc = "auto" /\ main_pc' = "poll"
        /\ system_mode = "Arm Stay" /\ system_mode' = "Disarm")
          => (last_arm_was_auto /\ modeSetBy = "auto")]_vars

\* C38: whenever the mode is Disarm, with no command being handled, the
\* siren output is low: every change to Disarm, by command or automatic,
\* leaves the siren off, and no zone change raises it in Disarm.
C38_DisarmedMeansSilent ==
    (system_mode = "Disarm" /\ msg.pc = "idle") => ~siren

(***************************************************************************)
(* Claims about the streamer's in-flight marks, prefixes and stop           *)
(***************************************************************************)

\* C35: every upload task clears the in-flight mark of its filename when it
\* finishes, on every exit path (uploaded, upload failed, file gone, no
\* storage client), so that no filename stays marked for ever, also across
\* a stop and a new session that uses the same filenames.
C35_FinishedTaskClearsMark ==
    [][\A t \in tasks :
          (\A u \in tasks' : u.file # t.file)
             => ~upload_in_progress'[t.file]]_vars

C39_StopIsIdempotent ==
    (/\ stopLog.row > 0
     /\ stopLog.idle \/ stopLog.row >= 2
     /\ cmd_pc \in {"idle", "exited"})
        => /\ stopLog.emitted = {}
           /\ ~is_uploading
           /\ hls_ffmpeg_process = None
           /\ current_output_dir = None

\* a session has run and two stop commands in a row have been handled
C39_Witness ==
    /\ stopLog.row = 2
    /\ stopLog.idle
    /\ cmd_pc = "idle"
    /\ sessionCount >= 1
    /\ remote # {}

(***************************************************************************)
(* Claims about the sweeper beside the supervisor                           *)
(***************************************************************************)

\* C36: for every interleaving of the sweeper with the supervisor, the
\* hour directory the supervisor made before launching the encoder is
\* still there when that encoder opens its first segment file.
C36_PreparedDirAwaitsEncoder == prep.opened # "lost"

====
